---------------------------- MODULE Spec2Model ----------------------------
(***************************************************************************)
(* Model of repeatedmistakes: of the exact payoff engines                  *)
(*   calculations.calculate_payoff                  (engine "plain")       *)
(*   calculations.calculate_payoff_with_mistakes    (engine "seq")         *)
(*   calculations_multiprocessed.calculate_payoff_with_mistakes ("par")    *)
(* of the Monte Carlo engines                                              *)
(*   simulations.simulate_payoff                    (engine "sim")         *)
(*   simulations_multiprocessed.simulate_payoff     (engine "simpar")      *)
(* and of a Strategy object exercised on its own    (engine "object"),     *)
(* together with the Strategy classes and the PayoffMatrix they consume.   *)
(*                                                                         *)
(* Numbers are exact rationals <<numerator, denominator>> in lowest terms  *)
(* (the claims are about exact arithmetic); float('inf') is <<1, 0>>.      *)
(* The engines' histories are sequences over the characterset {"C", "D"}. *)
(***************************************************************************)
EXTENDS Integers, Sequences, FiniteSets, TLC

(***************************************************************************)
(* Exact rational arithmetic                                               *)
(***************************************************************************)
Abs(x) == IF x < 0 THEN -x ELSE x

RECURSIVE GCD(_, _)
GCD(a, b) == IF b = 0 THEN a ELSE GCD(b, a % b)

\* Arguments are bound to their values once (a bound variable holds a value,
\* an operator argument is re-evaluated at each use inside ENABLED).
Apply1(Op(_), a) == CHOOSE r \in {Op(x) : x \in {a}} : TRUE
Apply2(Op(_, _), a, b) == CHOOSE r \in {Op(x, y) : x \in {a}, y \in {b}} : TRUE

NormOf(n, d) == Apply1(LAMBDA g : <<n \div g, d \div g>>, GCD(Abs(n), d))
RNorm(n, d) == Apply2(NormOf, n, d)

RZero == <<0, 1>>
ROne == <<1, 1>>
Inf == <<1, 0>>

RInt(n) == <<n, 1>>

SumOf(a, b) ==
    Apply1(LAMBDA l : RNorm(a[1] * (l \div a[2]) + b[1] * (l \div b[2]), l),
           (a[2] \div GCD(a[2], b[2])) * b[2])
RAdd(a, b) == Apply2(SumOf, a, b)

RNeg(a) == Apply1(LAMBDA x : <<-x[1], x[2]>>, a)

RSub(a, b) == RAdd(a, RNeg(b))

ProductOf(a, b) ==
    Apply2(LAMBDA g1, g2 :
               RNorm((a[1] \div g1) * (b[1] \div g2), (a[2] \div g2) * (b[2] \div g1)),
           GCD(Abs(a[1]), b[2]), GCD(Abs(b[1]), a[2]))
RMul(a, b) == Apply2(ProductOf, a, b)

\* Comparison by cross-multiplication, over the least common denominator.
LessOf(a, b) ==
    Apply1(LAMBDA g : a[1] * (b[2] \div g) < b[1] * (a[2] \div g), GCD(a[2], b[2]))
RLess(a, b) == Apply2(LessOf, a, b)

RLeq(a, b) == ~RLess(b, a)

RDiv(a, b) == Apply1(LAMBDA y : RMul(a, <<y[2], y[1]>>), b)

RAbs(a) == Apply1(LAMBDA x : <<Abs(x[1]), x[2]>>, a)

RECURSIVE RPow(_, _)
RPow(a, k) == IF k = 0 THEN ROne ELSE RMul(a, RPow(a, k - 1))

PairAdd(p, r) == Apply2(LAMBDA x, y : <<RAdd(x[1], y[1]), RAdd(x[2], y[2])>>, p, r)

PairScale(p, c) == Apply2(LAMBDA x, y : <<RMul(x[1], y), RMul(x[2], y)>>, p, c)

Range(s) == {s[i] : i \in 1..Len(s)}

Count(s, x) == Cardinality({i \in 1..Len(s) : s[i] = x})

(***************************************************************************)
(* strategies.py                                                           *)
(***************************************************************************)
C == "C"
D == "D"
Charset == {C, D}

strategy_list ==
    <<"AllC", "AllD", "TitForTat", "InverseTitForTat", "SuspiciousTitForTat",
      "SuspiciousInverseTitForTat", "NiceAllD", "SuspiciousAllC", "Grim", "WSLS">>

Last(h) == h[Len(h)]

\* A Strategy object: its class, its characterset and its history.
StrategyObject(class, c, d, history) ==
    [class |-> class, C |-> c, D |-> d, history |-> history]

\* Strategy subclasses' _strategy(self, opponent_history).
\* WSLS evaluates len(self.history == 0), the len() of a bool: a TypeError.
SelfStrategy(self, opponent_history) ==
    LET first_round == Len(self.history) = 0
        last_is_C == opponent_history[Len(opponent_history)] = self.C
    IN  CASE self.class = "AllC" -> self.C
          [] self.class = "AllD" -> self.D
          [] self.class = "TitForTat" ->
                IF first_round THEN self.C ELSE IF last_is_C THEN self.C ELSE self.D
          [] self.class = "InverseTitForTat" ->
                IF first_round THEN self.C ELSE IF last_is_C THEN self.D ELSE self.C
          [] self.class = "SuspiciousTitForTat" ->
                IF first_round THEN self.D ELSE IF last_is_C THEN self.C ELSE self.D
          [] self.class = "SuspiciousInverseTitForTat" ->
                IF first_round THEN self.D ELSE IF last_is_C THEN self.D ELSE self.C
          [] self.class = "NiceAllD" -> IF first_round THEN self.C ELSE self.D
          [] self.class = "SuspiciousAllC" -> IF first_round THEN self.D ELSE self.C
          [] self.class = "Grim" ->
                IF self.D \in Range(opponent_history) THEN self.D ELSE self.C
          [] self.class = "WSLS" -> "TypeError"

SelfNextMoveUnchecked(self, opponent_history) ==
    IF ~(Range(opponent_history) \subseteq {self.C, self.D}) THEN "InvalidActionError"
    ELSE SelfStrategy(self, opponent_history)

SelfNextMoveLengthFirst(self, opponent_history) ==
    IF Len(opponent_history) # Len(self.history) THEN "HistoryLengthMismatch"
    ELSE IF ~(Range(opponent_history) \subseteq {self.C, self.D})
    THEN "InvalidActionError"
    ELSE SelfStrategy(self, opponent_history)

\* Strategy.next_move(self, opponent_history): the characterset check, then
\* the length check, then the class's _strategy.
SelfNextMove(self, opponent_history) ==
    IF ~(Range(opponent_history) \subseteq {self.C, self.D}) THEN "InvalidActionError"
    ELSE IF Len(opponent_history) # Len(self.history) THEN "HistoryLengthMismatch"
    ELSE SelfStrategy(self, opponent_history)

\* Strategy.opposite(self, move)
SelfOpposite(self, move) ==
    IF move \notin {self.C, self.D} THEN "InvalidActionError"
    ELSE IF move = self.D THEN self.C ELSE self.D

SelfResetKeepsHistory(self) == self

\* Strategy.reset(self)
SelfReset(self) == [self EXCEPT !.history = <<>>]

SelfSetHistoryResetsFirst(self, new_history) ==
    IF Range(new_history) \subseteq {self.C, self.D}
    THEN [self |-> [SelfReset(self) EXCEPT !.history = new_history],
          raised |-> "None"]
    ELSE [self |-> SelfReset(self), raised |-> "InvalidActionError"]

\* The history setter: the object afterwards and what was raised.
SelfSetHistory(self, new_history) ==
    IF Range(new_history) \subseteq {self.C, self.D}
    THEN [self |-> [SelfReset(self) EXCEPT !.history = new_history],
          raised |-> "None"]
    ELSE [self |-> self, raised |-> "InvalidActionError"]

\* The engines construct their players with the payoff matrix's symbols,
\* "C" and "D"; s is the class and own the player's history.
_strategy(s, own, opp) == SelfStrategy(StrategyObject(s, C, D, own), opp)

next_move(s, own, opp) == SelfNextMove(StrategyObject(s, C, D, own), opp)

opposite(move) == SelfOpposite(StrategyObject("Strategy", C, D, <<>>), move)

(***************************************************************************)
(* repeatedgame.py: PayoffMatrix                                           *)
(***************************************************************************)
\* PayoffMatrix.payoff(player_one, player_two)
payoff(pm, player_one, player_two) ==
    IF player_one = C
    THEN (IF player_two = C THEN pm.CC ELSE IF player_two = D THEN pm.CD ELSE "None")
    ELSE IF player_one = D
    THEN (IF player_two = C THEN pm.DC ELSE IF player_two = D THEN pm.DD ELSE "None")
    ELSE "InvalidActionError"

\* Python's order on tuples: lexicographic.
TupleLeq(a, b) == a[1] < b[1] \/ (a[1] = b[1] /\ a[2] <= b[2])

TupleMax(S) == CHOOSE t \in S : \A u \in S : TupleLeq(u, t)

NumMax(a, b) == IF a >= b THEN a ELSE b

\* PayoffMatrix.max(): max(max(CC, DD, DC, CD)), the larger entry of the
\* lexicographically largest payoff tuple.
PayoffMax(pm) ==
    LET t == TupleMax({pm.CC, pm.DD, pm.DC, pm.CD}) IN NumMax(t[1], t[2])

\* PrisonersDilemmaPayoff(P, R, S, T)
PrisonersDilemmaPayoff(P, R, S, T) ==
    [CC |-> <<R, R>>, CD |-> <<S, T>>, DC |-> <<T, S>>, DD |-> <<P, P>>]

\* PayoffMatrix(CC, CD, DC, DD)
PayoffMatrix(cc, cd, dc, dd) == [CC |-> cc, CD |-> cd, DC |-> dc, DD |-> dd]


(***************************************************************************)
(* Inputs of a run                                                         *)
(***************************************************************************)
MaxWorkers == 2

\* The strategy classes whose _strategy returns a move; the engines are
\* exercised with these.
EngineStrategies == {strategy_list[i] : i \in 1..9}

SymmetricMatrix == PrisonersDilemmaPayoff(1, 2, 0, 3)
SkewedMatrix == PayoffMatrix(<<0, 3>>, <<1, 0>>, <<1, 1>>, <<1, 0>>)
NegativeMatrix == PrisonersDilemmaPayoff(1, 2, -1, 3)

Matrices == {SymmetricMatrix, SkewedMatrix, NegativeMatrix}

Deltas == {<<-1, 2>>, <<0, 1>>, <<1, 2>>, <<1, 1>>}
Mus == {<<-1, 4>>, <<0, 1>>, <<1, 4>>, <<1, 1>>}
Epsilons == {<<3, 2>>, <<1, 1>>, <<3, 8>>, <<1, 16>>}

\* The parallel engine is run on fewer inputs: its interleavings multiply them.
ParPairs == {<<"TitForTat", "AllD">>, <<"Grim", "SuspiciousInverseTitForTat">>}
ParMatrices == {SymmetricMatrix}
ParEpsilons == {<<3, 2>>, <<3, 8>>, <<1, 4>>}

Workers == 1..MaxWorkers

VARIABLES
    engine,                    \* which entry point is being called
    strategy_one, strategy_two, payoff_matrix,
    continuation_probability, mistake_probability,
    epsilon,                   \* epsilon of the current call
    epsilon_two,               \* epsilon the caller passes to its second call
    cpus,                      \* cpu_count()
    pc,                        \* position of the calling (coordinator) code
    call,                      \* 1 or 2: which call of the caller is running
    q,                         \* naive_method's Queue
    strategy_payoff,           \* <<strategy_one_payoff, strategy_two_payoff>>
    player_history,            \* <<player_one.history, player_two.history>>
    rounds, max_term_size,     \* calculate_payoff's loop variables
    nodeq, resultq,            \* the manager's queues
    procs,                     \* per worker process: its position and locals
    started, joined,           \* processes started / joined by the coordinator
    manager,                   \* TRUE once Manager() has been created
    constructed,               \* strategy objects constructed in this call
    enqueued,                  \* every node put on a queue in this call
    expanded,                  \* every node expanded in this call, in order
    first,                     \* what the first call did, kept by the caller
    trials, estimator_stdev,   \* simulate_payoff's arguments
    seed,                      \* seed argument of the single-process simulate_payoff
    random_instance,           \* the RandomState of the single-process engine
    number_of_trials,          \* simulate_payoff's counter
    payoffs,                   \* <<strategy_one_payoffs, strategy_two_payoffs>>
    trial,                     \* perform_trial's locals while a match is played
    trial_chunks,              \* the parallel simulate_payoff's chunk sizes
    pool,                      \* per chunk of pool.map: has its task run
    matches,                   \* matches played to the end in this call
    test_object,               \* a Strategy object a caller constructs
    strat_history,             \* the history the caller assigns to it
    opponent_history,          \* the argument the caller passes to next_move
    action,                    \* what next_move returned or raised
    consulted,                 \* TRUE once the object's _strategy has been called
    game,                      \* a RepeatedGame.simulate call: its argument and progress
    query                      \* a PayoffMatrix.payoff call: its moves and how it ended

inputs == <<strategy_one, strategy_two, payoff_matrix, continuation_probability,
            mistake_probability, epsilon_two, cpus>>
seqvars == <<q, rounds, max_term_size>>
parvars == <<nodeq, resultq, procs, started, joined, manager>>
simvars == <<trials, estimator_stdev, seed, random_instance, number_of_trials,
             payoffs, trial, trial_chunks, pool, matches>>
objvars == <<test_object, strat_history, opponent_history, action, consulted,
             game, query>>
vars == <<engine, inputs, epsilon, pc, call, seqvars, strategy_payoff,
          player_history, parvars, constructed, enqueued, expanded, first,
          simvars, objvars>>

(***************************************************************************)
(* Node expansion, shared by naive_method and worker                       *)
(***************************************************************************)
Node(coefficient, history) == [coefficient |-> coefficient, history |-> history]

\* Mutant: the engine is seeded with a root of coefficient 2.
RootNodeDoubled == Node(RInt(2), <<<<>>, <<>>>>)

\* Node(coefficient=1, history=('', ''))
RootNode == Node(ROne, <<<<>>, <<>>>>)

\* The four outcomes of a round, in the order the code treats them:
\* no mistake, player one mistaken, player two mistaken, both mistaken.
Cases == 1..4

OneMinusMu == RSub(ROne, mistake_probability)

\* Mutant: a single mistake is weighted like a double mistake.
CaseWeightSingleAsDouble(k) ==
    IF k = 1 THEN RMul(OneMinusMu, OneMinusMu)
    ELSE RMul(mistake_probability, mistake_probability)

CaseWeight(k) ==
    CASE k = 1 -> RMul(OneMinusMu, OneMinusMu)
      [] k = 2 -> RMul(mistake_probability, OneMinusMu)
      [] k = 3 -> RMul(mistake_probability, OneMinusMu)
      [] k = 4 -> RMul(mistake_probability, mistake_probability)

\* player_one.next_move(player_two.history), player_two.next_move(player_one.history)
NoMistakeMoves(history) ==
    <<next_move(strategy_one, history[1], history[2]),
      next_move(strategy_two, history[2], history[1])>>

\* Mutant: player one's mistake is not reversed before player two's is made.
CaseMovesMistakeKept(moves, k) ==
    CASE k = 1 -> moves
      [] k = 2 -> <<opposite(moves[1]), moves[2]>>
      [] k = 3 -> <<opposite(moves[1]), opposite(moves[2])>>
      [] k = 4 -> <<moves[1], opposite(moves[2])>>

\* The moves of case k, derived from the no-mistake moves by opposite().
CaseMoves(moves, k) ==
    CASE k = 1 -> moves
      [] k = 2 -> <<opposite(moves[1]), moves[2]>>
      [] k = 3 -> <<moves[1], opposite(moves[2])>>
      [] k = 4 -> <<opposite(moves[1]), opposite(moves[2])>>

RPair(t) == <<RInt(t[1]), RInt(t[2])>>

\* Mutant: a sign slip, the term enters the totals negated.
CaseTermNegated(node, moves, k) ==
    LET m == CaseMoves(moves, k)
    IN PairScale(RPair(payoff(payoff_matrix, m[1], m[2])),
                 RNeg(RMul(CaseWeight(k), node.coefficient)))

\* payoff[i] * weight * node.coefficient for both players
CaseTerm(node, moves, k) ==
    LET m == CaseMoves(moves, k)
    IN PairScale(RPair(payoff(payoff_matrix, m[1], m[2])),
                 RMul(CaseWeight(k), node.coefficient))

\* Mutant: the child's coefficient is not discounted by delta.
CaseCoefficientUndiscounted(node, k) == RMul(CaseWeight(k), node.coefficient)

\* coefficient = continuation_probability * weight * node.coefficient
CaseCoefficient(node, k) ==
    RMul(continuation_probability, RMul(CaseWeight(k), node.coefficient))

CaseChild(node, moves, k) ==
    LET m == CaseMoves(moves, k)
    IN Node(CaseCoefficient(node, k),
            <<Append(node.history[1], m[1]), Append(node.history[2], m[2])>>)

payoff_max == RInt(PayoffMax(payoff_matrix))

\* naive_method: if coefficient * payoff_matrix.max() > epsilon: q.put(...)
NaiveKeeps(coefficient) == RLess(epsilon, RMul(coefficient, payoff_max))

RECURSIVE SumTerms(_, _, _)
SumTerms(node, moves, k) ==
    IF k = 0 THEN <<RZero, RZero>>
    ELSE PairAdd(SumTerms(node, moves, k - 1), CaseTerm(node, moves, k))

RECURSIVE KeptChildren(_, _, _)
KeptChildren(node, moves, k) ==
    IF k = 0 THEN <<>>
    ELSE LET c == CaseChild(node, moves, k)
         IN KeptChildren(node, moves, k - 1)
              \o (IF NaiveKeeps(c.coefficient) THEN <<c>> ELSE <<>>)

\* Mutant: the totals are returned without the (1 - delta) rescaling.
NormaliseForgotten(p) == p

\* strategy_x_payoff *= (1 - continuation_probability)
Normalise(p) == PairScale(p, RSub(ROne, continuation_probability))

(***************************************************************************)
(* Input validation (calculations.py 33-34, 312-316; multiprocessed 36-40)  *)
(***************************************************************************)
BadDelta ==
    \/ RLeq(ROne, continuation_probability)
    \/ RLess(continuation_probability, RZero)

\* Mutant: only the upper limit of the mistake probability is checked.
BadMuAboveOnly == RLeq(ROne, mistake_probability)

BadMu ==
    \/ RLeq(ROne, mistake_probability)
    \/ RLess(mistake_probability, RZero)

Invalid == IF engine = "plain" THEN BadDelta ELSE BadDelta \/ BadMu

\* Mutant: the totals are left as the previous call set them.
StartTotalLeftOver == strategy_payoff

\* strategy_one_payoff = 0. ; strategy_two_payoff = 0.
StartTotal == <<RZero, RZero>>

\* Python's None, where an argument or a local may hold it.
None == <<>>

\* No simulate_payoff call is running.
SimIdle ==
    /\ trials = 0
    /\ estimator_stdev = None
    /\ seed = 0
    /\ random_instance = None
    /\ number_of_trials = 0
    /\ payoffs = <<<<>>, <<>>>>
    /\ trial = None
    /\ trial_chunks = <<>>
    /\ pool = <<>>
    /\ matches = 0

\* No Strategy object is being exercised on its own.
ObjIdle ==
    /\ test_object = "None"
    /\ strat_history = <<>>
    /\ opponent_history = <<>>
    /\ action = "None"
    /\ consulted = FALSE
    /\ game = None
    /\ query = None

NoProc == [pc |-> "unstarted", internalq |-> <<>>, node |-> RootNode,
           moves |-> <<C, C>>, k |-> 0, total |-> <<RZero, RZero>>]

Init ==
    /\ engine \in {"plain", "seq", "par"}
    /\ \E pair \in (IF engine = "par" THEN ParPairs
                     ELSE EngineStrategies \X EngineStrategies) :
           strategy_one = pair[1] /\ strategy_two = pair[2]
    /\ payoff_matrix \in (IF engine = "par" THEN ParMatrices ELSE Matrices)
    /\ continuation_probability \in Deltas
    /\ mistake_probability \in (IF engine = "plain" THEN {RZero} ELSE Mus)
    /\ epsilon \in (IF engine = "par" THEN ParEpsilons ELSE Epsilons)
    /\ epsilon_two \in (IF engine = "seq" THEN {e \in Epsilons : RLeq(e, epsilon)}
                        ELSE {epsilon})
    /\ cpus \in (IF engine = "par" THEN 1..MaxWorkers ELSE {1})
    /\ pc = "call"
    /\ call = 1
    /\ q = <<>>
    /\ strategy_payoff = <<RZero, RZero>>
    /\ player_history = <<<<>>, <<>>>>
    /\ rounds = -1
    /\ max_term_size = Inf
    /\ nodeq = <<>>
    /\ resultq = <<>>
    /\ procs = [w \in Workers |-> NoProc]
    /\ started = 0
    /\ joined = 0
    /\ manager = FALSE
    /\ constructed = 0
    /\ enqueued = <<>>
    /\ expanded = <<>>
    /\ first = [done |-> FALSE]
    /\ SimIdle
    /\ ObjIdle

\* The entry point's parameter checks: raise ValueError or go on.
Validate ==
    /\ pc = "call"
    /\ pc' = IF Invalid THEN "raised" ELSE "setup"
    /\ UNCHANGED <<simvars, objvars,
                   engine, inputs, epsilon, call, seqvars, strategy_payoff,
                   player_history, parvars, constructed, enqueued, expanded, first>>

(***************************************************************************)
(* calculations.calculate_payoff                                           *)
(***************************************************************************)
PlainSetup ==
    /\ pc = "setup" /\ engine = "plain"
    /\ strategy_payoff' = StartTotal
    /\ player_history' = <<<<>>, <<>>>>
    /\ constructed' = constructed + 2
    /\ max_term_size' = Inf
    /\ rounds' = -1
    /\ pc' = "loop"
    /\ UNCHANGED <<simvars, objvars,
                   engine, inputs, epsilon, call, q, parvars, enqueued, expanded, first>>

\* One iteration of: while max_term_size > epsilon
PlainRound ==
    /\ pc = "loop" /\ engine = "plain"
    /\ RLess(epsilon, max_term_size)
    /\ LET r == rounds + 1
           move_one == next_move(strategy_one, player_history[1], player_history[2])
           move_two == next_move(strategy_two, player_history[2], player_history[1])
           discount == RPow(continuation_probability, r)
           term == PairScale(RPair(payoff(payoff_matrix, move_one, move_two)), discount)
       IN /\ rounds' = r
          /\ player_history' = <<Append(player_history[1], move_one),
                                 Append(player_history[2], move_two)>>
          /\ strategy_payoff' = PairAdd(strategy_payoff, term)
          /\ max_term_size' = RMul(discount, payoff_max)
    /\ UNCHANGED <<simvars, objvars,
                   engine, inputs, epsilon, pc, call, q, parvars, constructed,
                   enqueued, expanded, first>>

PlainReturn ==
    /\ pc = "loop" /\ engine = "plain"
    /\ ~RLess(epsilon, max_term_size)
    /\ strategy_payoff' = Normalise(strategy_payoff)
    /\ pc' = "returned"
    /\ UNCHANGED <<simvars, objvars,
                   engine, inputs, epsilon, call, seqvars, player_history, parvars,
                   constructed, enqueued, expanded, first>>

(***************************************************************************)
(* calculations.calculate_payoff_with_mistakes: naive_method               *)
(***************************************************************************)
NaiveSetup ==
    /\ pc = "setup" /\ engine = "seq"
    /\ q' = <<RootNode>>
    /\ enqueued' = <<RootNode>>
    /\ expanded' = <<>>
    /\ strategy_payoff' = StartTotal
    /\ player_history' = <<<<>>, <<>>>>
    /\ constructed' = constructed + 2
    /\ pc' = "loop"
    /\ UNCHANGED <<simvars, objvars,
                   engine, inputs, epsilon, call, rounds, max_term_size, parvars, first>>

\* Mutant: the assigned history is added to the one the player holds.
AssignedAppends(held, history) ==
    <<held[1] \o history[1], held[2] \o history[2]>>

\* player_one.history, player_two.history = node.history: the histories the
\* two players, which held the histories `held`, hold afterwards.
Assigned(held, history) ==
    <<SelfSetHistory(StrategyObject(strategy_one, C, D, held[1]), history[1]).self.history,
      SelfSetHistory(StrategyObject(strategy_two, C, D, held[2]), history[2]).self.history>>

\* One iteration of: while not q.empty()
NaiveStep ==
    /\ pc = "loop" /\ engine = "seq"
    /\ q # <<>>
    /\ LET node == Head(q)
           held == Assigned(player_history, node.history)
           moves == NoMistakeMoves(held)
           kids == KeptChildren([node EXCEPT !.history = held], moves, 4)
       IN /\ player_history' = held
          /\ strategy_payoff' = PairAdd(strategy_payoff, SumTerms(node, moves, 4))
          /\ q' = Tail(q) \o kids
          /\ enqueued' = enqueued \o kids
          /\ expanded' = Append(expanded, [node |-> node, by |-> 0])
    /\ UNCHANGED <<simvars, objvars,
                   engine, inputs, epsilon, pc, call, rounds, max_term_size, parvars,
                   constructed, first>>

NaiveReturn ==
    /\ pc = "loop" /\ engine = "seq"
    /\ q = <<>>
    /\ strategy_payoff' = Normalise(strategy_payoff)
    /\ pc' = "returned"
    /\ UNCHANGED <<simvars, objvars,
                   engine, inputs, epsilon, call, seqvars, player_history, parvars,
                   constructed, enqueued, expanded, first>>

(***************************************************************************)
(* calculations_multiprocessed.calculate_payoff_with_mistakes              *)
(***************************************************************************)
EXTERNAL_HISTORY_LIMIT == 2

\* publish_node: "if coefficient * payoff_matrix_max < epsilon: pass; else: publish"
Publishes(coefficient) == ~RLess(RMul(coefficient, payoff_max), epsilon)

\* Mutant: only histories shorter than the limit go to the shared queue.
ToExternalBelowLimit(node) == Len(node.history[1]) < EXTERNAL_HISTORY_LIMIT

\* publish_node: the queue a published node goes to
ToExternal(node) == Len(node.history[1]) <= EXTERNAL_HISTORY_LIMIT

\* Manager(), the two queues, nodeq.put(root)
ParSetup ==
    /\ pc = "setup" /\ engine = "par"
    /\ manager' = TRUE
    /\ nodeq' = <<RootNode>>
    /\ resultq' = <<>>
    /\ enqueued' = <<RootNode>>
    /\ expanded' = <<>>
    /\ strategy_payoff' = StartTotal
    /\ procs' = [w \in Workers |-> NoProc]
    /\ started' = 0
    /\ joined' = 0
    /\ pc' = "start"
    /\ UNCHANGED <<simvars, objvars,
                   engine, inputs, epsilon, call, seqvars, player_history,
                   constructed, first>>

\* for _ in range(cpu_count()): proc.start().  The started worker builds its
\* two strategy objects and its empty internal queue and totals.
ParStart ==
    /\ pc = "start"
    /\ started < cpus
    /\ procs' = [procs EXCEPT ![started + 1].pc = "get"]
    /\ constructed' = constructed + 2
    /\ started' = started + 1
    /\ pc' = IF started + 1 = cpus THEN "join" ELSE "start"
    /\ UNCHANGED <<simvars, objvars,
                   engine, inputs, epsilon, call, seqvars, strategy_payoff,
                   player_history, nodeq, resultq, joined, manager, enqueued,
                   expanded, first>>

\* Mutant: join returns although the process is still running.
JoinReturnsEarly(w) == procs[w].pc # "unstarted"

\* Mutant: join returns only for a process that ended by returning.
JoinReturnsOnCleanExit(w) == procs[w].pc = "done"

\* Mutant: join blocks although the process has ended.
JoinNeverReturns(w) == FALSE

\* proc.join() of the next process returns once that process has ended.
JoinReturns(w) == procs[w].pc \in {"done", "crashed"}

\* for proc in processes: proc.join()
ParJoin ==
    /\ pc = "join"
    /\ joined < cpus
    /\ JoinReturns(joined + 1)
    /\ joined' = joined + 1
    /\ pc' = IF joined + 1 = cpus THEN "drain" ELSE "join"
    /\ UNCHANGED <<simvars, objvars,
                   engine, inputs, epsilon, call, seqvars, strategy_payoff,
                   player_history, nodeq, resultq, procs, started, manager,
                   constructed, enqueued, expanded, first>>

\* One iteration of: while not resultq.empty()
ParDrain ==
    /\ pc = "drain"
    /\ resultq # <<>>
    /\ strategy_payoff' = PairAdd(strategy_payoff, Head(resultq))
    /\ resultq' = Tail(resultq)
    /\ UNCHANGED <<simvars, objvars,
                   engine, inputs, epsilon, pc, call, seqvars, player_history,
                   nodeq, procs, started, joined, manager, constructed, enqueued,
                   expanded, first>>

ParReturn ==
    /\ pc = "drain"
    /\ resultq = <<>>
    /\ strategy_payoff' = Normalise(strategy_payoff)
    /\ pc' = "returned"
    /\ UNCHANGED <<simvars, objvars,
                   engine, inputs, epsilon, call, seqvars, player_history, parvars,
                   constructed, enqueued, expanded, first>>

\* Mutant: get returns the head and leaves it on the queue.
DequeueKeepsHead(queue) == queue

\* What a worker's get leaves on a queue it took the head of.
Dequeue(queue) == Tail(queue)

\* A next_move call of the pair ended in an exception.
Raises(moves) == moves[1] \notin Charset \/ moves[2] \notin Charset

\* worker: internalq.get_nowait(), else nodeq.get(True, 0.1) returning a node;
\* then the node's histories are assigned and the no-mistake moves computed.
WorkerGet(w) ==
    /\ procs[w].pc = "get"
    /\ \/ procs[w].internalq # <<>>
       \/ nodeq # <<>>
    /\ LET local == procs[w].internalq # <<>>
           node == IF local THEN Head(procs[w].internalq) ELSE Head(nodeq)
       IN /\ ~Raises(NoMistakeMoves(node.history))
          /\ procs' = [procs EXCEPT
                          ![w].pc = "case",
                          ![w].internalq = IF local THEN Dequeue(@) ELSE @,
                          ![w].node = node,
                          ![w].moves = NoMistakeMoves(node.history),
                          ![w].k = 1]
          /\ nodeq' = IF local THEN nodeq ELSE Dequeue(nodeq)
          /\ expanded' = Append(expanded, [node |-> node, by |-> w])
    /\ UNCHANGED <<simvars, objvars,
                   engine, inputs, epsilon, pc, call, seqvars, strategy_payoff,
                   player_history, resultq, started, joined, manager, constructed,
                   enqueued, first>>

\* worker: one of the four outcomes of the node in hand: its term is added to
\* per_process_total and its child handed to publish_node.
WorkerCase(w) ==
    /\ procs[w].pc = "case"
    /\ LET p == procs[w]
           child == CaseChild(p.node, p.moves, p.k)
           pub == Publishes(child.coefficient)
           ext == pub /\ ToExternal(child)
       IN /\ procs' = [procs EXCEPT
                          ![w].total = PairAdd(@, CaseTerm(p.node, p.moves, p.k)),
                          ![w].internalq = IF pub /\ ~ext THEN Append(@, child) ELSE @,
                          ![w].k = IF p.k = 4 THEN 0 ELSE p.k + 1,
                          ![w].pc = IF p.k = 4 THEN "get" ELSE "case"]
          /\ nodeq' = IF ext THEN Append(nodeq, child) ELSE nodeq
          /\ enqueued' = IF pub THEN Append(enqueued, child) ELSE enqueued
    /\ UNCHANGED <<simvars, objvars,
                   engine, inputs, epsilon, pc, call, seqvars, strategy_payoff,
                   player_history, resultq, started, joined, manager, constructed,
                   expanded, first>>

\* worker: a next_move call on the node just taken raises something other
\* than queue.Empty.  Nothing in worker catches it: the process ends there,
\* without a put on resultq, and what its internal queue held is gone with it.
WorkerRaises(w) ==
    /\ procs[w].pc = "get"
    /\ \/ procs[w].internalq # <<>>
       \/ nodeq # <<>>
    /\ LET local == procs[w].internalq # <<>>
           node == IF local THEN Head(procs[w].internalq) ELSE Head(nodeq)
       IN /\ Raises(NoMistakeMoves(node.history))
          /\ procs' = [procs EXCEPT
                          ![w].pc = "crashed",
                          ![w].internalq = IF local THEN Dequeue(@) ELSE @,
                          ![w].node = node]
          /\ nodeq' = IF local THEN nodeq ELSE Dequeue(nodeq)
    /\ UNCHANGED <<simvars, objvars,
                   engine, inputs, epsilon, pc, call, seqvars, strategy_payoff,
                   player_history, resultq, started, joined, manager, constructed,
                   enqueued, expanded, first>>

\* Mutant: a get raises queue.Empty whatever the queue holds.
QueueEmptyAlways(queue) == TRUE

\* queue.Empty: what get_nowait, or a get whose timeout has passed, raises.
QueueEmpty(queue) == queue = <<>>

\* worker: the timed pull found the shared queue empty (queue.Empty):
\* resultq.put(per_process_total); return
WorkerTimeout(w) ==
    /\ procs[w].pc = "get"
    /\ QueueEmpty(procs[w].internalq)
    /\ QueueEmpty(nodeq)
    /\ resultq' = Append(resultq, procs[w].total)
    /\ procs' = [procs EXCEPT ![w].pc = "done"]
    /\ UNCHANGED <<simvars, objvars,
                   engine, inputs, epsilon, pc, call, seqvars, strategy_payoff,
                   player_history, nodeq, started, joined, manager, constructed,
                   enqueued, expanded, first>>

(***************************************************************************)
(* The caller: a second call of the sequential engine with the same        *)
(* strategies, payoff matrix, delta and mu, and with epsilon_two.          *)
(***************************************************************************)
SecondCall ==
    /\ pc = "returned" /\ call = 1 /\ engine \in {"seq", "par"}
    /\ first' = [done |-> TRUE, engine |-> engine, epsilon |-> epsilon,
                 result |-> strategy_payoff, expanded |-> expanded,
                 enqueued |-> enqueued]
    /\ call' = 2
    /\ engine' = "seq"
    /\ epsilon' = epsilon_two
    /\ constructed' = 0
    /\ pc' = "call"
    /\ UNCHANGED <<simvars, objvars,
                   inputs, seqvars, strategy_payoff, player_history, parvars,
                   enqueued, expanded>>

Next ==
    \/ Validate
    \/ PlainSetup \/ PlainRound \/ PlainReturn
    \/ NaiveSetup \/ NaiveStep \/ NaiveReturn
    \/ ParSetup \/ ParStart \/ ParJoin \/ ParDrain \/ ParReturn
    \/ \E w \in Workers : WorkerGet(w) \/ WorkerCase(w) \/ WorkerTimeout(w)
    \/ SecondCall

Spec == Init /\ [][Next]_vars

\* The sequential engine alone.  It is one thread of straight-line code, so
\* whenever it can take a step it eventually does.
\* Checked for liveness on the inputs of the parallel runs and two more pairs.
NaivePairs == ParPairs \cup {<<"AllC", "AllC">>, <<"InverseTitForTat", "NiceAllD">>}

NaiveInit ==
    /\ Init
    /\ engine = "seq"
    /\ <<strategy_one, strategy_two>> \in NaivePairs
    /\ epsilon_two = epsilon

NaiveNext == Validate \/ NaiveSetup \/ NaiveStep \/ NaiveReturn \/ SecondCall

NaiveSpec == NaiveInit /\ [][NaiveNext]_vars /\ WF_vars(NaiveNext)


(***************************************************************************)
(* Properties                                                              *)
(***************************************************************************)
ExpandedNodes == [i \in 1..Len(expanded) |-> expanded[i].node]

Expansions(node) == Count(ExpandedNodes, node)

RECURSIVE SumTotals(_)
SumTotals(w) ==
    IF w = 0 THEN <<RZero, RZero>> ELSE PairAdd(SumTotals(w - 1), procs[w].total)

RECURSIVE SumQueue(_)
SumQueue(queue) ==
    IF queue = <<>> THEN <<RZero, RZero>> ELSE PairAdd(Head(queue), SumQueue(Tail(queue)))

Summing == engine = "par" /\ pc \in {"drain", "returned"}

\* C1: in the parallel engine no node is ever expanded twice (by two workers
\* or by one), and when the coordinator starts summing the partial totals the
\* shared queue and every worker's internal queue are empty and every node
\* put on a queue (the root and each published child) has been expanded
\* exactly once.
C1_EveryNodeExpandedOnce ==
    engine = "par" =>
        /\ \A i \in 1..Len(expanded) : Expansions(expanded[i].node) = 1
        /\ Summing =>
              /\ nodeq = <<>>
              /\ \A w \in Workers : procs[w].internalq = <<>>
              /\ \A i \in 1..Len(enqueued) :
                    Expansions(enqueued[i]) = Count(enqueued, enqueued[i])
              /\ Len(expanded) = Len(enqueued)

\* Two workers have expanded nodes of a tree of at least four nodes, one of
\* them from its internal queue, and the coordinator is summing.
C1_Witness ==
    /\ Summing /\ cpus = 2
    /\ Len(expanded) >= 4
    /\ \E i \in 1..Len(expanded) :
          Len(expanded[i].node.history[1]) > EXTERNAL_HISTORY_LIMIT
    /\ \E i, j \in 1..Len(expanded) : expanded[i].by = 1 /\ expanded[j].by = 2

\* C2: the coordinator reads the result queue and rescales only after every
\* process it started has ended, so nothing is put on the result queue once
\* it drains: what it has summed plus what is still queued is the sum of
\* all workers' partial totals, and the returned value is that sum rescaled.
C2_DrainAfterAllJoined ==
    Summing =>
        /\ started = cpus
        /\ \A w \in 1..cpus : procs[w].pc = "done"
        /\ pc = "drain" =>
              PairAdd(strategy_payoff, SumQueue(resultq)) = SumTotals(cpus)
        /\ pc = "returned" => strategy_payoff = Normalise(SumTotals(cpus))

\* The coordinator has returned the sum of two workers' non-zero totals.
C2_Witness ==
    /\ engine = "par" /\ pc = "returned" /\ cpus = 2
    /\ \A w \in 1..2 : procs[w].total # <<RZero, RZero>>

\* C3 (as claimed): called on the inputs of a parallel run, the sequential
\* engine expands the same multiset of nodes and returns the same pair.
C3_ParallelMatchesSequential ==
    (call = 2 /\ pc = "returned" /\ first.engine = "par") =>
        /\ strategy_payoff = first.result
        /\ Len(expanded) = Len(first.expanded)
        /\ \A i \in 1..Len(expanded) :
              Count(ExpandedNodes, expanded[i].node)
                = Count([j \in 1..Len(first.expanded) |-> first.expanded[j].node],
                        expanded[i].node)


Depth(node) == Len(node.history[1])

\* Every node on naive_method's queue: its coefficient is at most delta^depth,
\* and a child is there only because coefficient * max exceeded epsilon.
QueueBounded ==
    (engine = "seq" /\ pc = "loop") =>
        \A i \in 1..Len(enqueued) :
            /\ RLeq(enqueued[i].coefficient,
                    RPow(continuation_probability, Depth(enqueued[i])))
            /\ Depth(enqueued[i]) > 0 => NaiveKeeps(enqueued[i].coefficient)

\* C4: for delta and mu in [0,1) and epsilon > 0 the sequential engine's
\* worklist eventually becomes empty and the engine returns; every enqueued
\* coefficient is at most delta^depth and exceeded epsilon / max.
C4_NaiveTerminates ==
    /\ []QueueBounded
    /\ [](pc = "loop" => <>(pc = "returned" /\ q = <<>>))

\* The engine has returned after expanding a tree three levels deep.
C4_Witness ==
    /\ engine = "seq" /\ pc = "returned" /\ q = <<>>
    /\ \E i \in 1..Len(expanded) : Depth(expanded[i].node) >= 3


(***************************************************************************)
(* tests/test_calculations.py: the exact normalised payoffs of the 64      *)
(* pairs of the eight memory-one strategies.  R, S, T, P name the outcome  *)
(* of a round: CC, CD, DC, DD.                                             *)
(***************************************************************************)
first_round_distinct(v, delta) ==
    RAdd(RMul(v[1], RSub(ROne, delta)), RMul(v[2], delta))

first_two_rounds_distinct(v, delta) ==
    RAdd(RAdd(RMul(v[1], RSub(ROne, delta)),
              RMul(RMul(v[2], RSub(ROne, delta)), delta)),
         RMul(v[3], RPow(delta, 2)))

two_action_cycle(v, delta) ==
    RDiv(RAdd(v[1], RMul(v[2], delta)), RAdd(ROne, delta))

four_action_cycle(v, delta) ==
    RDiv(RAdd(RAdd(v[1], RMul(v[2], delta)),
              RAdd(RMul(v[3], RPow(delta, 2)), RMul(v[4], RPow(delta, 3)))),
         RAdd(RAdd(ROne, delta), RAdd(RPow(delta, 2), RPow(delta, 3))))

\* <<first strategy, second strategy, exact form, its payoffs>>
strategy_combinations ==
    {
      <<"AllC", "AllC", "single", <<"R">>>>,
      <<"AllC", "TitForTat", "single", <<"R">>>>,
      <<"AllC", "SuspiciousInverseTitForTat", "single", <<"S">>>>,
      <<"AllC", "AllD", "single", <<"S">>>>,
      <<"TitForTat", "AllC", "single", <<"R">>>>,
      <<"TitForTat", "TitForTat", "single", <<"R">>>>,
      <<"InverseTitForTat", "SuspiciousInverseTitForTat", "single", <<"S">>>>,
      <<"InverseTitForTat", "AllD", "single", <<"S">>>>,
      <<"SuspiciousTitForTat", "SuspiciousTitForTat", "single", <<"P">>>>,
      <<"SuspiciousTitForTat", "AllD", "single", <<"P">>>>,
      <<"SuspiciousInverseTitForTat", "AllC", "single", <<"T">>>>,
      <<"SuspiciousInverseTitForTat", "InverseTitForTat", "single", <<"T">>>>,
      <<"AllD", "AllC", "single", <<"T">>>>,
      <<"AllD", "InverseTitForTat", "single", <<"T">>>>,
      <<"AllD", "SuspiciousTitForTat", "single", <<"P">>>>,
      <<"AllD", "AllD", "single", <<"P">>>>,
      <<"AllC", "InverseTitForTat", "first_round_distinct", <<"R", "S">>>>,
      <<"AllC", "NiceAllD", "first_round_distinct", <<"R", "S">>>>,
      <<"AllC", "SuspiciousAllC", "first_round_distinct", <<"S", "R">>>>,
      <<"AllC", "SuspiciousTitForTat", "first_round_distinct", <<"S", "R">>>>,
      <<"TitForTat", "AllD", "first_round_distinct", <<"S", "P">>>>,
      <<"InverseTitForTat", "AllC", "first_round_distinct", <<"R", "T">>>>,
      <<"NiceAllD", "AllC", "first_round_distinct", <<"R", "T">>>>,
      <<"NiceAllD", "NiceAllD", "first_round_distinct", <<"R", "P">>>>,
      <<"NiceAllD", "SuspiciousAllC", "first_round_distinct", <<"S", "T">>>>,
      <<"NiceAllD", "AllD", "first_round_distinct", <<"S", "P">>>>,
      <<"SuspiciousAllC", "AllC", "first_round_distinct", <<"T", "R">>>>,
      <<"SuspiciousAllC", "NiceAllD", "first_round_distinct", <<"T", "S">>>>,
      <<"SuspiciousAllC", "SuspiciousAllC", "first_round_distinct", <<"P", "R">>>>,
      <<"SuspiciousAllC", "AllD", "first_round_distinct", <<"P", "S">>>>,
      <<"SuspiciousTitForTat", "AllC", "first_round_distinct", <<"T", "R">>>>,
      <<"SuspiciousInverseTitForTat", "AllD", "first_round_distinct", <<"P", "S">>>>,
      <<"AllD", "TitForTat", "first_round_distinct", <<"T", "P">>>>,
      <<"AllD", "NiceAllD", "first_round_distinct", <<"T", "P">>>>,
      <<"AllD", "SuspiciousAllC", "first_round_distinct", <<"P", "T">>>>,
      <<"AllD", "SuspiciousInverseTitForTat", "first_round_distinct", <<"P", "T">>>>,
      <<"TitForTat", "NiceAllD", "first_two_rounds_distinct", <<"R", "S", "P">>>>,
      <<"TitForTat", "SuspiciousAllC", "first_two_rounds_distinct", <<"S", "T", "R">>>>,
      <<"InverseTitForTat", "NiceAllD", "first_two_rounds_distinct", <<"R", "P", "S">>>>,
      <<"InverseTitForTat", "SuspiciousAllC", "first_two_rounds_distinct", <<"S", "R", "T">>>>,
      <<"NiceAllD", "TitForTat", "first_two_rounds_distinct", <<"R", "T", "P">>>>,
      <<"NiceAllD", "InverseTitForTat", "first_two_rounds_distinct", <<"R", "P", "T">>>>,
      <<"NiceAllD", "SuspiciousTitForTat", "first_two_rounds_distinct", <<"S", "T", "P">>>>,
      <<"NiceAllD", "SuspiciousInverseTitForTat", "first_two_rounds_distinct", <<"S", "P", "T">>>>,
      <<"SuspiciousAllC", "TitForTat", "first_two_rounds_distinct", <<"T", "S", "R">>>>,
      <<"SuspiciousAllC", "InverseTitForTat", "first_two_rounds_distinct", <<"T", "R", "S">>>>,
      <<"SuspiciousAllC", "SuspiciousTitForTat", "first_two_rounds_distinct", <<"P", "S", "R">>>>,
      <<"SuspiciousAllC", "SuspiciousInverseTitForTat", "first_two_rounds_distinct", <<"P", "R", "S">>>>,
      <<"SuspiciousTitForTat", "NiceAllD", "first_two_rounds_distinct", <<"T", "S", "P">>>>,
      <<"SuspiciousTitForTat", "SuspiciousAllC", "first_two_rounds_distinct", <<"P", "T", "R">>>>,
      <<"SuspiciousInverseTitForTat", "NiceAllD", "first_two_rounds_distinct", <<"T", "P", "S">>>>,
      <<"SuspiciousInverseTitForTat", "SuspiciousAllC", "first_two_rounds_distinct", <<"P", "R", "T">>>>,
      <<"TitForTat", "SuspiciousTitForTat", "two_action_cycle", <<"S", "T">>>>,
      <<"InverseTitForTat", "InverseTitForTat", "two_action_cycle", <<"R", "P">>>>,
      <<"SuspiciousTitForTat", "TitForTat", "two_action_cycle", <<"T", "S">>>>,
      <<"SuspiciousInverseTitForTat", "SuspiciousInverseTitForTat", "two_action_cycle", <<"P", "R">>>>,
      <<"TitForTat", "InverseTitForTat", "four_action_cycle", <<"R", "S", "P", "T">>>>,
      <<"TitForTat", "SuspiciousInverseTitForTat", "four_action_cycle", <<"S", "P", "T", "R">>>>,
      <<"InverseTitForTat", "TitForTat", "four_action_cycle", <<"R", "T", "P", "S">>>>,
      <<"InverseTitForTat", "SuspiciousTitForTat", "four_action_cycle", <<"S", "R", "T", "P">>>>,
      <<"SuspiciousTitForTat", "InverseTitForTat", "four_action_cycle", <<"T", "R", "S", "P">>>>,
      <<"SuspiciousTitForTat", "SuspiciousInverseTitForTat", "four_action_cycle", <<"P", "T", "R", "S">>>>,
      <<"SuspiciousInverseTitForTat", "TitForTat", "four_action_cycle", <<"T", "P", "S", "R">>>>,
      <<"SuspiciousInverseTitForTat", "SuspiciousTitForTat", "four_action_cycle", <<"P", "S", "R", "T">>>>
    }

TestedPair(s1, s2) == \E row \in strategy_combinations : row[1] = s1 /\ row[2] = s2

results_list(s1, s2) == CHOOSE row \in strategy_combinations : row[1] = s1 /\ row[2] = s2

\* The payoff pair of the outcome a letter names.
LetterPayoff(pm, letter) ==
    CASE letter = "R" -> pm.CC
      [] letter = "S" -> pm.CD
      [] letter = "T" -> pm.DC
      [] letter = "P" -> pm.DD

\* The exact normalised payoff of player i for the pair (s1, s2).
expected_result(s1, s2, pm, delta, i) ==
    LET row == results_list(s1, s2)
        v == [j \in 1..Len(row[4]) |-> RInt(LetterPayoff(pm, row[4][j])[i])]
    IN CASE row[3] = "single" -> v[1]
         [] row[3] = "first_round_distinct" -> first_round_distinct(v, delta)
         [] row[3] = "first_two_rounds_distinct" -> first_two_rounds_distinct(v, delta)
         [] row[3] = "two_action_cycle" -> two_action_cycle(v, delta)
         [] row[3] = "four_action_cycle" -> four_action_cycle(v, delta)


(***************************************************************************)
(* Properties of the results                                               *)
(***************************************************************************)
Delta == continuation_probability
Mu == mistake_probability

DeltaInRange == RLeq(RZero, Delta) /\ RLess(Delta, ROne)
MuInRange == RLeq(RZero, Mu) /\ RLess(Mu, ROne)

NoWorkDone ==
    /\ constructed = 0
    /\ q = <<>> /\ nodeq = <<>> /\ enqueued = <<>> /\ expanded = <<>>
    /\ manager = FALSE
    /\ started = 0 /\ \A w \in Workers : procs[w].pc = "unstarted"

\* C5: each exact engine raises ValueError whenever delta < 0 or delta >= 1,
\* the two with-mistakes engines also whenever mu < 0 or mu >= 1, and does so
\* before any work: no strategy object, no node, no manager, no process.
C5_InvalidParametersRaiseFirst ==
    (pc # "call" /\ (~DeltaInRange \/ (engine # "plain" /\ ~MuInRange))) =>
        pc = "raised" /\ NoWorkDone

\* The parallel engine has raised on a negative mistake probability alone.
C5_Witness ==
    /\ pc = "raised" /\ engine = "par"
    /\ DeltaInRange /\ RLess(Mu, RZero)

AllCPair == strategy_one = "AllC" /\ strategy_two = "AllC"

Returned(e) == pc = "returned" /\ engine = e

\* The rounds a run has summed: calculate_payoff plays rounds 0..rounds,
\* naive_method with mu = 0 expands one node per round.
RoundsSummed == IF engine = "plain" THEN rounds + 1 ELSE Len(expanded)

\* C6 (as claimed): for delta in [0,1), mu = 0 and two always-cooperate
\* policies the exact engine returns exactly the cooperate-cooperate payoff.
C6_ReturnsTheConstant ==
    ((Returned("plain") \/ Returned("seq")) /\ AllCPair /\ Mu = RZero) =>
        strategy_payoff = RPair(payoff_matrix.CC)

\* C6 (amended): it returns the cooperate-cooperate payoff times
\* (1 - delta^n), n the number of rounds summed before the truncation, and
\* so exactly that payoff when delta = 0.
C6_ReturnsTheTruncatedConstant ==
    ((Returned("plain") \/ Returned("seq")) /\ AllCPair /\ Mu = RZero) =>
        /\ strategy_payoff =
              PairScale(RPair(payoff_matrix.CC), RSub(ROne, RPow(Delta, RoundsSummed)))
        /\ Delta = RZero => strategy_payoff = RPair(payoff_matrix.CC)

\* Two always-cooperate policies, delta = 1/2: the with-mistakes engine has
\* returned after three rounds or more.
C6_Witness ==
    /\ Returned("seq") /\ AllCPair /\ Mu = RZero
    /\ Delta = <<1, 2>> /\ RoundsSummed >= 3

NonNegative(pm) ==
    \A t \in {pm.CC, pm.CD, pm.DC, pm.DD} : t[1] >= 0 /\ t[2] >= 0

\* T: the first round t with delta^t * max() <= epsilon
FirstSmallRound(t) ==
    /\ RLeq(RMul(RPow(Delta, t), payoff_max), epsilon)
    /\ \A u \in 0..(t - 1) : RLess(epsilon, RMul(RPow(Delta, u), payoff_max))

\* C7 (as claimed): calculate_payoff plays rounds 0..T, T the first round
\* with delta^T * max <= epsilon, and for non-negative payoffs and every pair
\* of the test catalogue each player's result is within epsilon of the exact
\* infinite-horizon normalised payoff.
C7_WithinEpsilonOfExact ==
    (Returned("plain") /\ NonNegative(payoff_matrix)
       /\ TestedPair(strategy_one, strategy_two)) =>
        /\ FirstSmallRound(rounds)
        /\ \A i \in 1..2 :
              RLeq(RAbs(RSub(strategy_payoff[i],
                             expected_result(strategy_one, strategy_two,
                                             payoff_matrix, Delta, i))),
                   epsilon)

FirstMoves ==
    <<_strategy(strategy_one, <<>>, <<>>), _strategy(strategy_two, <<>>, <<>>)>>

Flip(move) == IF move = C THEN D ELSE C

Scaled(t, c) == PairScale(RPair(t), c)

\* (1-mu)^2 P(a,b) + mu(1-mu) P(~a,b) + mu(1-mu) P(a,~b) + mu^2 P(~a,~b)
SingleRoundExpectedPayoff ==
    LET a == FirstMoves[1]
        b == FirstMoves[2]
        one == RSub(ROne, Mu)
    IN PairAdd(PairAdd(Scaled(payoff(payoff_matrix, a, b), RMul(one, one)),
                       Scaled(payoff(payoff_matrix, Flip(a), b), RMul(Mu, one))),
               PairAdd(Scaled(payoff(payoff_matrix, a, Flip(b)), RMul(Mu, one)),
                       Scaled(payoff(payoff_matrix, Flip(a), Flip(b)), RMul(Mu, Mu))))

\* C8: with delta = 0 the with-mistakes engines expand the root only and
\* return the single-round expected payoff of the first-round moves;
\* calculate_payoff returns the first-round payoff.
C8_DeltaZeroIsOneRound ==
    (pc = "returned" /\ Delta = RZero) =>
        /\ engine \in {"seq", "par"} =>
              /\ ExpandedNodes = <<RootNode>>
              /\ strategy_payoff = SingleRoundExpectedPayoff
        /\ engine = "plain" =>
              strategy_payoff = RPair(payoff(payoff_matrix, FirstMoves[1], FirstMoves[2]))

\* delta = 0, mu = 1/4: the sequential engine has returned for two policies
\* that open with different moves.
C8_Witness ==
    /\ Returned("seq") /\ Delta = RZero /\ Mu = <<1, 4>>
    /\ FirstMoves[1] # FirstMoves[2]

SecondOfTwo == call = 2 /\ pc = "returned" /\ first.engine = "seq"

\* C9: a second call of the sequential engine with identical arguments
\* expands the same nodes in the same order and returns the same pair.
C9_SecondCallIdentical ==
    (SecondOfTwo /\ first.epsilon = epsilon) =>
        /\ expanded = first.expanded
        /\ strategy_payoff = first.result

\* Both calls have returned, each after expanding a branching tree.
C9_Witness ==
    /\ SecondOfTwo /\ first.epsilon = epsilon
    /\ Len(first.expanded) >= 5
    /\ first.result # <<RZero, RZero>>

FirstNodes == {first.expanded[i].node : i \in 1..Len(first.expanded)}

Distance(result, i) ==
    RAbs(RSub(result[i],
              expected_result(strategy_one, strategy_two, payoff_matrix, Delta, i)))

ExactKnown == Mu = RZero /\ TestedPair(strategy_one, strategy_two)

\* C10 (as claimed): with the other arguments fixed, a smaller epsilon expands
\* a superset of the nodes and moves each player's result no further from
\* its epsilon -> 0 limit (compared where the limit is known exactly).
C10_MonotoneTowardLimit ==
    SecondOfTwo =>
        /\ FirstNodes \subseteq Range(ExpandedNodes)
        /\ ExactKnown =>
              \A i \in 1..2 : RLeq(Distance(strategy_payoff, i), Distance(first.result, i))

\* C10 (amended): a smaller epsilon expands a superset of the nodes; for
\* non-negative payoffs neither player's result decreases, and where the
\* limit is known exactly the result moves no further from it.
C10_MonotoneForNonNegativePayoffs ==
    SecondOfTwo =>
        /\ FirstNodes \subseteq Range(ExpandedNodes)
        /\ NonNegative(payoff_matrix) =>
              /\ \A i \in 1..2 : RLeq(first.result[i], strategy_payoff[i])
              /\ ExactKnown =>
                    \A i \in 1..2 :
                        RLeq(Distance(strategy_payoff, i), Distance(first.result, i))

\* A smaller epsilon has expanded more nodes and raised both results.
C10_Witness ==
    /\ SecondOfTwo /\ NonNegative(payoff_matrix)
    /\ Len(expanded) > Len(first.expanded)
    /\ \A i \in 1..2 : RLess(first.result[i], strategy_payoff[i])
    /\ Mu = <<1, 4>>


(***************************************************************************)
(* simulations.py: the Monte Carlo engines                                 *)
(*                                                                         *)
(* A RandomState is a deterministic stream of draws in [0, 1) fixed by its *)
(* seed; an unseeded RandomState() starts an arbitrary one.  The payoffs   *)
(* of a match are sums of integer matrix entries and are kept as integers. *)
(***************************************************************************)
\* The draws of the streams, one stream per seed.  A round consumes three
\* draws and the periods are not multiples of three, so every draw of a
\* stream serves in turn as a mistake draw and as the continuation draw.
Streams ==
    << << <<3, 4>>, <<0, 1>>, <<1, 2>>, <<7, 8>> >>,
       << <<1, 8>>, <<7, 8>>, <<3, 4>>, <<5, 8>>, <<1, 2>> >> >>

Seeds == 1..Len(Streams)

\* The stream a seed selects: each seed of Seeds its own, any other seed one
\* of them.
StreamOf(s) == IF s \in Seeds THEN s ELSE (s % Len(Streams)) + 1

\* RandomState(seed)
RandomState(s) == [stream |-> StreamOf(s), pos |-> 0]

\* random_instance.random_sample(): the draw returned
random_sample(rng) == Streams[rng.stream][rng.pos + 1]

\* random_instance.random_sample(): the generator afterwards
Advance(rng) == [rng EXCEPT !.pos = (@ + 1) % Len(Streams[rng.stream])]

\* perform_trial's locals before its loop; mu is the mistake_probability
\* the caller passed to perform_trial.
NewTrial(mu) ==
    [payoff |-> <<0, 0>>, history |-> <<<<>>, <<>>>>, cont |-> TRUE,
     rounds |-> 0, mistake_probability |-> mu,
     proposed |-> <<>>, played |-> <<>>]

\* Mutant: the histories are extended with the proposed moves, not with the
\* moves played after the mistakes.
RoundAppendsProposed(t, rng) ==
    LET player_one_move == next_move(strategy_one, t.history[1], t.history[2])
        player_two_move == next_move(strategy_two, t.history[2], t.history[1])
        one == IF RLess(random_sample(rng), t.mistake_probability)
               THEN opposite(player_one_move) ELSE player_one_move
        rng1 == Advance(rng)
        two == IF RLess(random_sample(rng1), t.mistake_probability)
               THEN opposite(player_two_move) ELSE player_two_move
        rng2 == Advance(rng1)
        pay == payoff(payoff_matrix, one, two)
        stop == RLess(continuation_probability, random_sample(rng2))
    IN  [trial |-> [t EXCEPT !.payoff = <<@[1] + pay[1], @[2] + pay[2]>>,
                             !.history = <<Append(@[1], player_one_move),
                                           Append(@[2], player_two_move)>>,
                             !.cont = ~stop,
                             !.rounds = @ + 1,
                             !.proposed = <<player_one_move, player_two_move>>,
                             !.played = <<one, two>>],
         rng |-> Advance(rng2)]

\* One iteration of perform_trial's while loop.
Round(t, rng) ==
    LET player_one_move == next_move(strategy_one, t.history[1], t.history[2])
        player_two_move == next_move(strategy_two, t.history[2], t.history[1])
        one == IF RLess(random_sample(rng), t.mistake_probability)
               THEN opposite(player_one_move) ELSE player_one_move
        rng1 == Advance(rng)
        two == IF RLess(random_sample(rng1), t.mistake_probability)
               THEN opposite(player_two_move) ELSE player_two_move
        rng2 == Advance(rng1)
        pay == payoff(payoff_matrix, one, two)
        stop == RLess(continuation_probability, random_sample(rng2))
    IN  [trial |-> [t EXCEPT !.payoff = <<@[1] + pay[1], @[2] + pay[2]>>,
                             !.history = <<Append(@[1], one), Append(@[2], two)>>,
                             !.cont = ~stop,
                             !.rounds = @ + 1,
                             !.proposed = <<player_one_move, player_two_move>>,
                             !.played = <<one, two>>],
         rng |-> Advance(rng2)]

\* perform_trial from its first round to its return.
RECURSIVE PlayOut(_)
PlayOut(r) == IF r.trial.cont THEN Apply1(PlayOut, Round(r.trial, r.rng)) ELSE r

perform_trial(rng, mu) == PlayOut([trial |-> NewTrial(mu), rng |-> rng])

\* A match reads its generator from where the previous match left it and
\* resets both players, so its outcome is fixed by the generator's state at
\* its start: Matches(s, mu, 0)[p + 1] is perform_trial started on stream s
\* at position p.
RECURSIVE Matches(_, _, _)
Matches(s, mu, p) ==
    IF p = Len(Streams[s]) THEN <<>>
    ELSE <<perform_trial([stream |-> s, pos |-> p], mu)>> \o Matches(s, mu, p + 1)

\* n matches in a row from position p, given the outcome of a match started
\* at each position: their payoff pairs and the position afterwards.
RECURSIVE InARow(_, _, _)
InARow(table, p, n) ==
    IF n = 0 THEN [list |-> <<>>, pos |-> p]
    ELSE IF n = 1
    THEN [list |-> <<table[p + 1].trial.payoff>>, pos |-> table[p + 1].rng.pos]
    ELSE Apply1(LAMBDA a :
                  Apply1(LAMBDA b : [list |-> a.list \o b.list, pos |-> b.pos],
                         InARow(table, a.pos, n - (n \div 2))),
                InARow(table, p, n \div 2))

\* perform_multiple_trials' for loop: the trial_list of n matches played on
\* one generator.
RunTrials(rng, n, mu) ==
    Apply1(LAMBDA table : InARow(table, rng.pos, n), Matches(rng.stream, mu, 0)).list

\* sum of f over s[lo..hi]
RECURSIVE SumOver(_, _, _, _)
SumOver(f(_), s, lo, hi) ==
    IF lo > hi THEN 0
    ELSE IF lo = hi THEN f(s[lo])
    ELSE SumOver(f, s, lo, (lo + hi) \div 2) + SumOver(f, s, (lo + hi) \div 2 + 1, hi)

Total(s) == SumOver(LAMBDA x : x, s, 1, Len(s))

TotalOfSquares(s) == SumOver(LAMBDA x : x * x, s, 1, Len(s))

\* np.array(s).std() / sqrt(len(s)) < target, in exact arithmetic:
\* std^2 = (n * sum(x^2) - sum(x)^2) / n^2.  The std of an empty array is
\* nan, and nan < target is False.
StdErrBelow(s, target) ==
    LET n == Len(s)
    IN  /\ n > 0
        /\ target[2] * target[2] * (n * TotalOfSquares(s) - Total(s) * Total(s))
             < target[1] * target[1] * n * n * n

\* np.array(s).mean() * (1 - continuation_probability); nan for an empty list
NormalisedMean(s) ==
    IF Len(s) = 0 THEN "nan"
    ELSE RMul(RNorm(Total(s), Len(s)), RSub(ROne, continuation_probability))

\* The minimum sample count of the adaptive mode (simulations.py line 61).
MinimumTrials == 100

TRIAL_INCREMENT == 1000

\* A match that never ends is followed for this many rounds.
MaxRounds == 4

SimPairs == {<<"AllC", "AllD">>, <<"TitForTat", "AllD">>, <<"Grim", "TitForTat">>}
ParSimPairs == {<<"AllC", "AllD">>, <<"Grim", "TitForTat">>}
SimDeltas == {<<0, 1>>, <<1, 2>>, <<1, 1>>}
SimMus == {<<0, 1>>, <<1, 4>>}
TrialCounts == {1, 2, 5}
SimTargets == {<<1, 5>>, <<3, 16>>}
ParTargets == {<<1, 4>>}

\* The variables of the exact engines, which no simulate_payoff call touches.
calcvars == <<epsilon, epsilon_two, call, rounds, max_term_size, nodeq, resultq,
              procs, started, joined, manager, constructed, enqueued, expanded,
              first, player_history>>

CalcIdle ==
    /\ epsilon = ROne /\ epsilon_two = ROne
    /\ call = 1
    /\ rounds = -1
    /\ max_term_size = Inf
    /\ nodeq = <<>> /\ resultq = <<>>
    /\ procs = [w \in Workers |-> NoProc]
    /\ started = 0 /\ joined = 0
    /\ manager = FALSE
    /\ constructed = 0
    /\ enqueued = <<>> /\ expanded = <<>>
    /\ first = [done |-> FALSE]
    /\ player_history = <<<<>>, <<>>>>

\* A call of simulations.simulate_payoff (engine "sim") or of
\* simulations_multiprocessed.simulate_payoff (engine "simpar").
SimInit ==
    /\ engine \in {"sim", "simpar"}
    /\ \E pair \in (IF engine = "sim" THEN SimPairs ELSE ParSimPairs) :
          strategy_one = pair[1] /\ strategy_two = pair[2]
    /\ payoff_matrix = SymmetricMatrix
    /\ continuation_probability \in
          (IF engine = "sim" THEN SimDeltas ELSE {d \in SimDeltas : RLess(d, ROne)})
    /\ mistake_probability \in SimMus
    /\ trials \in TrialCounts
    /\ estimator_stdev \in
          {None} \cup (IF engine = "sim" THEN SimTargets ELSE ParTargets)
    /\ seed \in (IF engine = "sim" THEN Seeds ELSE {0})
    /\ cpus \in (IF engine = "simpar" THEN 1..MaxWorkers ELSE {1})
    /\ pc = "call"
    /\ q = <<>>
    /\ strategy_payoff = <<RZero, RZero>>
    /\ random_instance = None
    /\ number_of_trials = 0
    /\ payoffs = <<<<>>, <<>>>>
    /\ trial = None
    /\ trial_chunks = <<>>
    /\ pool = <<>>
    /\ matches = 0
    /\ CalcIdle
    /\ ObjIdle

simargs == <<engine, strategy_one, strategy_two, payoff_matrix,
             continuation_probability, mistake_probability, trials,
             estimator_stdev, seed, cpus>>

\* simulate_payoff up to its while loop.
SimSetup ==
    /\ engine = "sim" /\ pc = "call"
    /\ random_instance' = RandomState(seed)
    /\ payoffs' = <<<<>>, <<>>>>
    /\ number_of_trials' = 0
    /\ pc' = "while"
    /\ UNCHANGED <<simargs, calcvars, objvars, q, strategy_payoff, trial,
                   trial_chunks, pool, matches>>

\* The mistake_probability perform_trial runs with when simulate_payoff
\* calls it: the call passes none, so it is perform_trial's default.
TrialMistakeProbability == RZero

\* number_of_trials += 1 and perform_trial up to its while loop.
TrialBegin ==
    /\ engine = "sim" /\ pc = "while"
    /\ number_of_trials' = number_of_trials + 1
    /\ trial' = NewTrial(TrialMistakeProbability)
    /\ pc' = "round"
    /\ UNCHANGED <<simargs, calcvars, objvars, q, strategy_payoff,
                   random_instance, payoffs, trial_chunks, pool, matches>>

\* One iteration of perform_trial's while loop.
TrialRound ==
    /\ engine = "sim" /\ pc = "round"
    /\ trial.cont
    /\ trial.rounds < MaxRounds
    /\ \E r \in {Round(trial, random_instance)} :
          trial' = r.trial /\ random_instance' = r.rng
    /\ UNCHANGED <<simargs, calcvars, objvars, q, strategy_payoff, pc,
                   number_of_trials, payoffs, trial_chunks, pool, matches>>

BothBelowFirstOnly(samples) == StdErrBelow(samples[1], estimator_stdev)

\* Both players' standard error is below estimator_stdev.
BothBelow(samples) ==
    StdErrBelow(samples[1], estimator_stdev) /\ StdErrBelow(samples[2], estimator_stdev)

SimBreaksOnePast(n, samples) ==
    IF estimator_stdev = None THEN n > trials
    ELSE n > MinimumTrials /\ BothBelow(samples)

\* simulate_payoff's test after a trial: leave the loop or go round again.
SimBreaks(n, samples) ==
    IF estimator_stdev = None THEN n >= trials
    ELSE n > MinimumTrials /\ BothBelow(samples)

\* perform_trial returns; simulate_payoff records the pair and tests.
TrialEnd ==
    /\ engine = "sim" /\ pc = "round"
    /\ ~trial.cont
    /\ \E samples \in {<<Append(payoffs[1], trial.payoff[1]),
                         Append(payoffs[2], trial.payoff[2])>>} :
          /\ payoffs' = samples
          /\ pc' = IF SimBreaks(number_of_trials, samples) THEN "mean" ELSE "while"
    /\ matches' = matches + 1
    /\ trial' = None
    /\ UNCHANGED <<simargs, calcvars, objvars, q, strategy_payoff,
                   random_instance, number_of_trials, trial_chunks, pool>>

\* The means, normalised, returned (the same lines in both engines).
SimReturn ==
    /\ engine \in {"sim", "simpar"} /\ pc = "mean"
    /\ strategy_payoff' = <<NormalisedMean(payoffs[1]), NormalisedMean(payoffs[2])>>
    /\ pc' = "returned"
    /\ UNCHANGED <<simargs, calcvars, objvars, q, simvars>>

(***************************************************************************)
(* simulations_multiprocessed.py                                           *)
(***************************************************************************)
\* [trials // cpu_count() for _ in range(cpu_count())]
ChunksOf(n) == [i \in 1..cpus |-> n \div cpus]

\* simulate_payoff up to its while True loop.
SimParSetup ==
    /\ engine = "simpar" /\ pc = "call"
    /\ payoffs' = <<<<>>, <<>>>>
    /\ q' = <<>>
    /\ trial_chunks' = ChunksOf(trials)
    /\ number_of_trials' = 0
    /\ pool' = [i \in 1..cpus |-> FALSE]
    /\ pc' = "map"
    /\ UNCHANGED <<simargs, calcvars, objvars, strategy_payoff, random_instance,
                   trial, matches>>

\* perform_multiple_trials(trial_chunks[i], q, ...) in a pool process: an
\* unseeded RandomState, n matches, the list of their payoff pairs put on q.
PoolTask(i) ==
    /\ engine = "simpar" /\ pc = "map"
    /\ i \in 1..cpus
    /\ ~pool[i]
    /\ \E s \in Seeds :
          q' = Append(q, RunTrials(RandomState(s), trial_chunks[i],
                                   mistake_probability))
    /\ pool' = [pool EXCEPT ![i] = TRUE]
    /\ matches' = matches + trial_chunks[i]
    /\ UNCHANGED <<simargs, calcvars, objvars, strategy_payoff, pc,
                   random_instance, number_of_trials, payoffs, trial, trial_chunks>>

\* Mutant: only the first list on the queue is taken.
FlattenHead(lists) == IF lists = <<>> THEN <<>> ELSE Head(lists)

\* all the lists of a queue, in order, as one list
RECURSIVE Flatten(_)
Flatten(lists) == IF lists = <<>> THEN <<>> ELSE Head(lists) \o Flatten(Tail(lists))

\* pool.map has returned: the for loop over range(cpu_count()) that counts
\* the chunks and moves every queued trial into the two payoff lists.
PoolCollect ==
    /\ engine = "simpar" /\ pc = "map"
    /\ \A i \in 1..cpus : pool[i]
    /\ number_of_trials' = number_of_trials + Total(trial_chunks)
    /\ \E got \in {Flatten(q)} :
          payoffs' = <<payoffs[1] \o [j \in 1..Len(got) |-> got[j][1]],
                       payoffs[2] \o [j \in 1..Len(got) |-> got[j][2]]>>
    /\ q' = <<>>
    /\ pc' = "check"
    /\ UNCHANGED <<simargs, calcvars, objvars, strategy_payoff, random_instance,
                   trial, trial_chunks, pool, matches>>

\* Mutant: the test for a missing estimator_stdev is left out.
SimParBreaksAdaptiveOnly == estimator_stdev # None /\ BothBelow(payoffs)

\* The parallel engine's test after a batch: leave the loop, or queue
\* TRIAL_INCREMENT more trials.
SimParBreaks == estimator_stdev = None \/ BothBelow(payoffs)

SimParCheck ==
    /\ engine = "simpar" /\ pc = "check"
    /\ IF SimParBreaks
       THEN pc' = "mean" /\ UNCHANGED <<trial_chunks, pool>>
       ELSE /\ trial_chunks' = ChunksOf(TRIAL_INCREMENT)
            /\ pool' = [i \in 1..cpus |-> FALSE]
            /\ pc' = "map"
    /\ UNCHANGED <<simargs, calcvars, objvars, q, strategy_payoff, random_instance,
                   number_of_trials, payoffs, trial, matches>>

SimNext ==
    \/ SimSetup \/ TrialBegin \/ TrialRound \/ TrialEnd \/ SimReturn
    \/ SimParSetup \/ (\E i \in Workers : PoolTask(i)) \/ PoolCollect \/ SimParCheck

SimSpec == SimInit /\ [][SimNext]_vars


(***************************************************************************)
(* Properties of the Monte Carlo engines                                   *)
(***************************************************************************)
FixedCount(e) == engine = e /\ estimator_stdev = None

Adaptive(e) == engine = e /\ estimator_stdev # None

LeftLoop == pc \in {"mean", "returned"}

Recorded == Len(payoffs[1])

\* C11: in fixed-count mode the single-process engine records one sample
\* pair per match played, never plays more than the N >= 1 matches asked
\* for, and has played exactly N when it leaves its loop and returns.
C11_FixedCountPlaysExactlyN ==
    FixedCount("sim") =>
        /\ Recorded = matches /\ Len(payoffs[2]) = matches
        /\ matches <= trials
        /\ number_of_trials <= trials
        /\ LeftLoop => matches = trials /\ number_of_trials = trials

\* A fixed-count run of five matches has returned.
C11_Witness ==
    /\ FixedCount("sim") /\ pc = "returned"
    /\ trials = 5 /\ matches = 5 /\ Recorded = 5

\* C12 (as claimed): in fixed-count mode the parallel engine's chunk sizes sum
\* to N, and once pool.map is over exactly N matches have been simulated and
\* exactly N sample pairs are averaged.
C12_ChunksSumToN ==
    FixedCount("simpar") =>
        /\ pc # "call" => Total(trial_chunks) = trials
        /\ pc \in {"check", "mean", "returned"} =>
              matches = trials /\ Recorded = trials /\ Len(payoffs[2]) = trials

\* C13 (as claimed): every match of the single-process engine is played with
\* the mistake probability the caller supplied.
C13_CallersMuApplied ==
    (engine = "sim" /\ pc = "round") =>
        trial.mistake_probability = mistake_probability

\* C14 (as claimed): with delta = 0 every match lasts exactly one round,
\* whatever the continuation draw.
C14_DeltaZeroOneRound ==
    (engine = "sim" /\ pc = "round" /\ continuation_probability = RZero) =>
        /\ trial.rounds <= 1
        /\ ~trial.cont => trial.rounds = 1

\* C15 (as claimed): with delta >= 1 the engine raises before any round is
\* played; perform_trial's round loop is never entered.
C15_DeltaOneRejected ==
    (engine = "sim" /\ RLeq(ROne, continuation_probability)) =>
        /\ pc # "round"
        /\ matches = 0

\* The square of std / sqrt(n) of a sample list, from the definitions:
\* (mean of squares - square of mean) / n.
SquaredStandardError(s) ==
    LET n == Len(s)
        mean == RNorm(Total(s), n)
    IN  RDiv(RSub(RNorm(TotalOfSquares(s), n), RMul(mean, mean)), RInt(n))

StrictlyBelowTarget(s) ==
    RLess(SquaredStandardError(s), RMul(estimator_stdev, estimator_stdev))

\* C16: when an adaptive run of either engine has left its loop, the counter
\* equals the number of samples recorded and both players' standard error
\* over all the recorded samples is strictly below the target.
C16_StopsOnlyBelowTarget ==
    ((Adaptive("sim") \/ Adaptive("simpar")) /\ LeftLoop) =>
        /\ Recorded > 0
        /\ number_of_trials = Recorded /\ Len(payoffs[2]) = Recorded
        /\ StrictlyBelowTarget(payoffs[1])
        /\ StrictlyBelowTarget(payoffs[2])

\* An adaptive parallel run was not below the target after its baseline
\* batch, ran TRIAL_INCREMENT further matches and then returned.
C16_Witness ==
    /\ Adaptive("simpar") /\ pc = "returned"
    /\ number_of_trials > TRIAL_INCREMENT
    /\ \E i \in 1..2 : ~StdErrBelow(SubSeq(payoffs[i], 1, (trials \div cpus) * cpus),
                                    estimator_stdev)

\* C17 (as claimed): an adaptive run of either engine never leaves its loop
\* having recorded MinimumTrials or fewer samples.
C17_NeverStopsAtOrBelowMinimum ==
    ((Adaptive("sim") \/ Adaptive("simpar")) /\ LeftLoop) =>
        Recorded > MinimumTrials


(***************************************************************************)
(* strategies.py: a Strategy object exercised on its own, as               *)
(* tests/test_strategies.py does: construct, assign a history, next_move.  *)
(***************************************************************************)
MaxHistory == 2

Symbols == {"a", "b", "x"}

\* (C, D) pairs; the tests' two-character texts may repeat a character.
Charactersets == {<<"a", "b">>, <<"b", "a">>, <<"a", "a">>, <<"x", "a">>}

Histories == UNION {[1..n -> Symbols] : n \in 0..MaxHistory}

\* The variables an exercised object does not touch.
restvars == <<engine, strategy_one, strategy_two, payoff_matrix,
              continuation_probability, mistake_probability, cpus, q,
              strategy_payoff, calcvars, simvars, game, query>>

\* test_object = strategy(C=characterset[0], D=characterset[1])
ObjInit ==
    /\ engine = "object"
    /\ \E class \in Range(strategy_list), cs \in Charactersets :
          test_object = StrategyObject(class, cs[1], cs[2], <<>>)
    /\ strat_history = <<>>
    /\ opponent_history = <<>>
    /\ action = "None"
    /\ consulted = FALSE
    /\ game = None
    /\ query = None
    /\ pc = "constructed"
    /\ strategy_one = "AllC" /\ strategy_two = "AllC"
    /\ payoff_matrix = SymmetricMatrix
    /\ continuation_probability = RZero
    /\ mistake_probability = RZero
    /\ cpus = 1
    /\ q = <<>>
    /\ strategy_payoff = <<RZero, RZero>>
    /\ CalcIdle
    /\ SimIdle

\* test_object.history = strat_history: the history setter, on a fresh
\* object or on one that already holds an assigned history.
SetHistory ==
    /\ engine = "object" /\ pc \in {"constructed", "assigned"}
    /\ \E new_history \in Histories :
          /\ strat_history' = new_history
          /\ \E r \in {SelfSetHistory(test_object, new_history)} :
                /\ test_object' = r.self
                /\ action' = r.raised
                /\ pc' = IF r.raised = "None" THEN "assigned" ELSE "raised"
    /\ UNCHANGED <<restvars, opponent_history, consulted>>

\* test_object.reset() after a history was assigned
Reset ==
    /\ engine = "object" /\ pc = "assigned"
    /\ test_object' = SelfReset(test_object)
    /\ pc' = "cleared"
    /\ UNCHANGED <<restvars, strat_history, opponent_history, action, consulted>>

Exceptions == {"InvalidActionError", "HistoryLengthMismatch"}

\* test_object.next_move(opponent_history), on a fresh object or after the
\* history was assigned; _strategy is called when neither check raised.
NextMove ==
    /\ engine = "object" /\ pc \in {"constructed", "assigned"}
    /\ \E history \in Histories :
          /\ opponent_history' = history
          /\ action' = SelfNextMove(test_object, history)
    /\ consulted' = (action' \notin Exceptions)
    /\ pc' = "done"
    /\ UNCHANGED <<restvars, test_object, strat_history>>

ObjNext == SetHistory \/ Reset \/ NextMove

ObjSpec == ObjInit /\ [][ObjNext]_vars

(***************************************************************************)
(* Properties of Strategy.next_move                                        *)
(***************************************************************************)
ObjCharacterset == {test_object.C, test_object.D}

InCharacterset(h) == Range(h) \subseteq ObjCharacterset

\* next_move has been called on the object with strat_history assigned.
MoveAfterAssignment ==
    engine = "object" /\ pc = "done" /\ test_object.history = strat_history

\* C18 (as claimed): for every class of strategy_list, every characterset and
\* every pair of equal-length histories over it, next_move returns one of the
\* characterset's symbols.
C18_ReturnsCharactersetSymbol ==
    (MoveAfterAssignment /\ InCharacterset(opponent_history)
       /\ Len(opponent_history) = Len(strat_history)) =>
        action \in ObjCharacterset

\* next_move is being called with opponent_history' as its argument.
Calling == engine = "object" /\ pc \in {"constructed", "assigned"} /\ pc' = "done"

\* C19: for every class of strategy_list, a call of next_move with an
\* opponent history over the characterset whose length differs from that of
\* the own history raises HistoryLengthMismatch, does not call _strategy and
\* leaves the object, its history included, unchanged.
C19_LengthMismatchRaises ==
    [][(Calling /\ InCharacterset(opponent_history')
          /\ Len(opponent_history') # Len(test_object.history)) =>
            /\ action' = "HistoryLengthMismatch"
            /\ ~consulted'
            /\ test_object' = test_object]_vars

\* WSLS with a two-move history was passed a one-move opponent history.
C19_Witness ==
    /\ MoveAfterAssignment /\ test_object.class = "WSLS"
    /\ Len(strat_history) = 2 /\ Len(opponent_history) = 1
    /\ InCharacterset(opponent_history)
    /\ action = "HistoryLengthMismatch"

\* C20: for every class of strategy_list, a call of next_move with an
\* opponent history holding a symbol outside the characterset raises
\* InvalidActionError, whether or not the lengths match, and returns no move.
C20_InvalidSymbolRaises ==
    [][(Calling /\ ~InCharacterset(opponent_history')) =>
            /\ action' = "InvalidActionError"
            /\ ~consulted']_vars

\* An opponent history with a foreign symbol and of another length than the
\* own history was passed: the characterset check came first.
C20_Witness ==
    /\ MoveAfterAssignment /\ ~InCharacterset(opponent_history)
    /\ Len(opponent_history) # Len(strat_history)
    /\ action = "InvalidActionError"


\* The history setter is being called with strat_history' as its argument.
Assigning ==
    engine = "object" /\ pc \in {"constructed", "assigned"}
      /\ pc' \in {"assigned", "raised"}

\* C21: assigning a history with a symbol outside the characterset raises
\* InvalidActionError and leaves the object, its stored history included,
\* as it was; assigning a history over the characterset stores exactly that
\* history and raises nothing.
C21_SetterValidatesAndStores ==
    [][Assigning =>
          IF Range(strat_history') \subseteq ObjCharacterset
          THEN /\ test_object'.history = strat_history'
               /\ pc' = "assigned" /\ action' = "None"
          ELSE /\ pc' = "raised" /\ action' = "InvalidActionError"
               /\ test_object' = test_object]_vars

\* An object that held a two-move history was assigned a history with a
\* foreign symbol: it raised and still holds the two moves.
C21_Witness ==
    /\ engine = "object" /\ pc = "raised" /\ action = "InvalidActionError"
    /\ Len(test_object.history) = 2
    /\ ~InCharacterset(strat_history)

\* C22: for every class of strategy_list, reset() after the assignment of a
\* history leaves the history empty and the object's class and characterset
\* symbols C and D as they were.
C22_ResetClearsHistoryOnly ==
    [][(engine = "object" /\ pc = "assigned" /\ pc' = "cleared") =>
          /\ test_object'.history = <<>>
          /\ test_object'.C = test_object.C
          /\ test_object'.D = test_object.D
          /\ test_object'.class = test_object.class]_vars

\* WSLS was assigned a two-move history and then reset.
C22_Witness ==
    /\ engine = "object" /\ pc = "cleared"
    /\ test_object.class = "WSLS"
    /\ Len(strat_history) = 2
    /\ test_object.history = <<>>


(***************************************************************************)
(* repeatedgame.py: RepeatedGame.simulate                                  *)
(***************************************************************************)
MaxGameRounds == 3

\* game = RepeatedGame(strat1, strat2); game.simulate(rounds), after the two
\* players have been constructed with the default characterset.
GameInit ==
    /\ engine = "game"
    /\ strategy_one \in Range(strategy_list)
    /\ strategy_two \in Range(strategy_list)
    /\ \E n \in 0..MaxGameRounds : game = [rounds |-> n, played |-> 0, results |-> None]
    /\ pc = "for"
    /\ payoff_matrix = SymmetricMatrix
    /\ continuation_probability = RZero
    /\ mistake_probability = RZero
    /\ cpus = 1
    /\ q = <<>>
    /\ strategy_payoff = <<RZero, RZero>>
    /\ test_object = "None"
    /\ strat_history = <<>>
    /\ opponent_history = <<>>
    /\ action = "None"
    /\ consulted = FALSE
    /\ query = None
    /\ CalcIdle
    /\ SimIdle

gamerest == <<engine, strategy_one, strategy_two, payoff_matrix,
              continuation_probability, mistake_probability, cpus, q,
              strategy_payoff, simvars, test_object, strat_history,
              opponent_history, consulted, query, epsilon, epsilon_two, call, rounds,
              max_term_size, nodeq, resultq, procs, started, joined, manager,
              constructed, enqueued, expanded, first>>

\* One iteration of simulate's for loop: both next_move calls, then both
\* histories extended; an exception of either call ends the simulation.
GameRound ==
    /\ engine = "game" /\ pc = "for"
    /\ game.played < game.rounds
    /\ LET move_one == next_move(strategy_one, player_history[1], player_history[2])
           move_two == next_move(strategy_two, player_history[2], player_history[1])
       IN  IF move_one \notin Charset
           THEN /\ action' = move_one /\ pc' = "raised"
                /\ UNCHANGED <<player_history, game>>
           ELSE IF move_two \notin Charset
           THEN /\ action' = move_two /\ pc' = "raised"
                /\ UNCHANGED <<player_history, game>>
           ELSE /\ player_history' = <<Append(player_history[1], move_one),
                                       Append(player_history[2], move_two)>>
                /\ game' = [game EXCEPT !.played = @ + 1]
                /\ UNCHANGED <<action, pc>>
    /\ UNCHANGED gamerest

\* The result dictionary: each strategy's history.
GameReturn ==
    /\ engine = "game" /\ pc = "for"
    /\ game.played = game.rounds
    /\ game' = [game EXCEPT !.results = player_history]
    /\ pc' = "returned"
    /\ UNCHANGED <<gamerest, player_history, action>>

GameNext == GameRound \/ GameReturn

GameSpec == GameInit /\ [][GameNext]_vars

\* C23 (as claimed): for every pair of classes of strategy_list and every
\* n >= 0, simulate(n) raises nothing, both histories grow by one move per
\* round, and both returned histories have length n.
C23_SimulateReturnsNRounds ==
    engine = "game" =>
        /\ pc # "raised"
        /\ Len(player_history[1]) = game.played
        /\ Len(player_history[2]) = game.played
        /\ pc = "returned" =>
              Len(game.results[1]) = game.rounds /\ Len(game.results[2]) = game.rounds


(***************************************************************************)
(* repeatedgame.py: PayoffMatrix.max                                       *)
(***************************************************************************)
PayoffEntries(pm) ==
    {pm[k][i] : k \in {"CC", "CD", "DC", "DD"}, i \in 1..2}

\* C24 (as claimed): once an exact engine has been called on a payoff
\* matrix, the scalar its max() returns is at least the absolute value of
\* each of the eight payoff entries.
C24_MaxBoundsEveryEntry ==
    (engine \in {"plain", "seq", "par"} /\ pc # "call") =>
        \A x \in PayoffEntries(payoff_matrix) : Abs(x) <= PayoffMax(payoff_matrix)


(***************************************************************************)
(* Pruning, expansion and the workers' exit in the exact engines           *)
(***************************************************************************)
\* C26 (as claimed): in the sequential and in the parallel engine every node
\* other than the root that has been put on a queue has
\* coefficient * max strictly greater than epsilon.
C26_EnqueuedOnlyAboveEpsilon ==
    (engine = "par" \/ (engine = "seq" /\ pc \in {"loop", "returned"})) =>
        \A i \in 1..Len(enqueued) :
            Depth(enqueued[i]) > 0 =>
                RLess(epsilon, RMul(enqueued[i].coefficient, payoff_max))


\* The moves the two policies propose from a node's history pair.
Proposed(node) ==
    <<next_move(strategy_one, node.history[1], node.history[2]),
      next_move(strategy_two, node.history[2], node.history[1])>>

\* The four move pairs (a,b), (~a,b), (a,~b), (~a,~b) and their weights.
OutcomePair(ab, k) ==
    CASE k = 1 -> ab
      [] k = 2 -> <<Flip(ab[1]), ab[2]>>
      [] k = 3 -> <<ab[1], Flip(ab[2])>>
      [] k = 4 -> <<Flip(ab[1]), Flip(ab[2])>>

OutcomeWeight(k) ==
    LET one == RSub(ROne, Mu)
    IN CASE k = 1 -> RMul(one, one)
         [] k \in {2, 3} -> RMul(Mu, one)
         [] k = 4 -> RMul(Mu, Mu)

\* c * weight * P(pair), for both players.
Contribution(node, k) ==
    LET m == OutcomePair(Proposed(node), k)
    IN Scaled(payoff(payoff_matrix, m[1], m[2]),
              RMul(node.coefficient, OutcomeWeight(k)))

NodeContribution(node) ==
    PairAdd(PairAdd(Contribution(node, 1), Contribution(node, 2)),
            PairAdd(Contribution(node, 3), Contribution(node, 4)))

Candidate(node, k) ==
    LET m == OutcomePair(Proposed(node), k)
    IN Node(RMul(RMul(Delta, node.coefficient), OutcomeWeight(k)),
            <<Append(node.history[1], m[1]), Append(node.history[2], m[2])>>)

Candidates(node) == {Candidate(node, k) : k \in 1..4}

Sum4(f) == RAdd(RAdd(f[1], f[2]), RAdd(f[3], f[4]))

MassOf(node) ==
    /\ Sum4([k \in 1..4 |-> OutcomeWeight(k)]) = ROne
    /\ Sum4([k \in 1..4 |-> RMul(node.coefficient, OutcomeWeight(k))]) = node.coefficient
    /\ Sum4([k \in 1..4 |-> Candidate(node, k).coefficient])
         = RMul(Delta, node.coefficient)

SeqExpansion ==
    (engine = "seq" /\ pc = "loop" /\ q # <<>>) =>
        LET node == Head(q)
        IN /\ strategy_payoff' = PairAdd(strategy_payoff, NodeContribution(node))
           /\ \A i \in (Len(enqueued) + 1)..Len(enqueued') :
                 enqueued'[i] \in Candidates(node)
           /\ MassOf(node)

ParExpansion(w) ==
    (engine = "par" /\ procs[w].pc = "case" /\ procs'[w] # procs[w]) =>
        LET node == procs[w].node
            k == procs[w].k
        IN /\ procs'[w].total = PairAdd(procs[w].total, Contribution(node, k))
           /\ \/ enqueued' = enqueued
              \/ enqueued' = Append(enqueued, Candidate(node, k))
           /\ procs'[w].k = (IF k = 4 THEN 0 ELSE k + 1)
           /\ MassOf(node)

\* C27: expanding a node of coefficient c whose policies propose (a,b) adds
\* to the totals c * weight * P(pair) for each of the four pairs (a,b),
\* (~a,b), (a,~b), (~a,~b) with weights (1-mu)^2, mu(1-mu), mu(1-mu), mu^2,
\* in one step of naive_method and in four steps of a worker; every child it
\* puts on a queue is the node's history extended by such a pair with
\* coefficient delta * c * weight; the weights sum to 1, the contribution
\* mass to c and the candidate coefficients to delta * c.
C27_ExpansionContribution ==
    [][SeqExpansion /\ \A w \in Workers : ParExpansion(w)]_vars

\* A worker has finished a node with mu = 1/4 and a non-zero total, and a
\* child born of a mistake in the first round is on record.
C27_Witness ==
    /\ engine = "par" /\ Mu = <<1, 4>>
    /\ \E w \in Workers :
          procs[w].pc = "get" /\ procs[w].total # <<RZero, RZero>>
    /\ \E i \in 1..Len(enqueued) :
          /\ Depth(enqueued[i]) = 1
          /\ enqueued[i].history # <<<<FirstMoves[1]>>, <<FirstMoves[2]>>>>


Front(h) == SubSeq(h, 1, Len(h) - 1)

IsParentOf(parent, node) ==
    parent.history = <<Front(node.history[1]), Front(node.history[2])>>

\* C28: in both with-mistakes engines every node put on a queue has a
\* coefficient that is strictly positive and at most delta^depth; a node of
\* depth 0 is the root, with coefficient 1 and empty histories, and it is the
\* first node enqueued; every other node has its parent among the enqueued
\* nodes, with a strictly larger coefficient.
C28_CoefficientsDecrease ==
    engine \in {"seq", "par"} =>
        /\ enqueued # <<>> =>
              enqueued[1] = [coefficient |-> ROne, history |-> <<<<>>, <<>>>>]
        /\ \A i \in 1..Len(enqueued) :
              LET node == enqueued[i]
              IN /\ RLess(RZero, node.coefficient)
                 /\ RLeq(node.coefficient, RPow(Delta, Depth(node)))
                 /\ Len(node.history[1]) = Len(node.history[2])
                 /\ Depth(node) = 0 => node = enqueued[1]
                 /\ Depth(node) > 0 =>
                       \E j \in 1..Len(enqueued) :
                           /\ IsParentOf(enqueued[j], node)
                           /\ RLess(node.coefficient, enqueued[j].coefficient)

\* A grandchild of the root has been enqueued by the parallel engine.
C28_Witness ==
    /\ engine = "par"
    /\ \E i \in 1..Len(enqueued) : Depth(enqueued[i]) >= 2


Exited(w) == procs[w].pc = "done"

\* The step by which worker w exits.
Exits(w) == ~Exited(w) /\ procs'[w].pc = "done"

WorkerExit(w) ==
    /\ Exits(w) =>
          /\ procs[w].pc = "get"
          /\ procs[w].internalq = <<>> /\ nodeq = <<>>
          /\ resultq' = Append(resultq, procs[w].total)
          /\ expanded' = expanded /\ enqueued' = enqueued /\ nodeq' = nodeq
    /\ Exited(w) =>
          /\ procs'[w] = procs[w]
          /\ Len(expanded') > Len(expanded) => expanded'[Len(expanded')].by # w
    /\ (~Exits(w) /\ pc \in {"start", "join"} /\ pc' \in {"start", "join"}) =>
          resultq' = resultq \/ \E v \in Workers \ {w} : Exits(v)

\* C29: a worker exits only from its pull, with its internal queue and the
\* shared queue both empty, and in that step puts its total on the result
\* queue; afterwards it takes no step (expands nothing, publishes nothing,
\* puts nothing).  While the coordinator starts and joins, the result queue
\* holds one total per exited worker, so one per started worker when the
\* drain begins.
C29_WorkerExitsOnceDrained ==
    /\ [][\A w \in Workers : WorkerExit(w)]_vars
    /\ []((engine = "par" /\ pc \in {"start", "join"}) =>
              Len(resultq) = Cardinality({w \in Workers : Exited(w)}))
    /\ [][(pc = "join" /\ pc' = "drain") =>
              (Len(resultq) = started /\ started = cpus
               /\ \A w \in 1..cpus : Exited(w))]_vars

\* Two workers have exited and each put a non-zero total on the result queue
\* after both had expanded nodes.
C29_Witness ==
    /\ engine = "par" /\ pc = "drain" /\ cpus = 2
    /\ Len(resultq) = 2
    /\ resultq[1] # <<RZero, RZero>> /\ resultq[2] # <<RZero, RZero>>
    /\ \E i, j \in 1..Len(expanded) : expanded[i].by = 1 /\ expanded[j].by = 2


(***************************************************************************)
(* The parallel engine alone, under fair scheduling: the coordinator and   *)
(* each worker are processes of their own, and each gets to run.           *)
(***************************************************************************)
ParInit ==
    /\ Init
    /\ engine = "par"

Coordinator == Validate \/ ParSetup \/ ParStart \/ ParJoin \/ ParDrain \/ ParReturn

Worker(w) == WorkerGet(w) \/ WorkerCase(w) \/ WorkerTimeout(w)

ParNext == Coordinator \/ \E w \in Workers : Worker(w)

ParSpec ==
    /\ ParInit /\ [][ParNext]_vars
    /\ WF_vars(Coordinator)
    /\ \A w \in Workers : WF_vars(Worker(w))

Running(w) == procs[w].pc \in {"get", "case"}

\* Every node that was put on a queue has been expanded, all four outcomes.
AllExpanded ==
    /\ nodeq = <<>>
    /\ \A w \in Workers : procs[w].internalq = <<>> /\ procs[w].k = 0
    /\ \A i \in 1..Len(enqueued) : Expansions(enqueued[i]) = 1

\* C30: under fair scheduling, with delta and mu in [0,1) and epsilon > 0,
\* every started worker of the parallel engine eventually exits, a worker
\* that has exited has finished the node it held and left its internal queue
\* empty, and the call eventually returns, with every enqueued node expanded.
C30_ParallelCompletes ==
    /\ \A w \in Workers : [](Running(w) => <>Exited(w))
    /\ \A w \in Workers :
          [](Exited(w) => (procs[w].internalq = <<>> /\ procs[w].k = 0))
    /\ []((pc = "setup" /\ DeltaInRange /\ MuInRange) => <>(pc = "returned"))
    /\ [](pc = "returned" => AllExpanded)

\* One worker has exited by timeout while the other still holds work that
\* puts further nodes on the shared queue.
C30_Witness ==
    /\ engine = "par" /\ cpus = 2
    /\ \E w, v \in Workers :
          /\ Exited(w) /\ procs[v].pc = "case"
          /\ Len(procs[v].node.history[1]) < EXTERNAL_HISTORY_LIMIT
          /\ Publishes(CaseChild(procs[v].node, procs[v].moves, procs[v].k).coefficient)


(***************************************************************************)
(* The two queues of a worker of the parallel exact engine                 *)
(***************************************************************************)
\* Worker w takes a node in this step.
Takes(w) == procs[w].pc = "get" /\ procs'[w].pc = "case"

ParentHistory(node) == <<Front(node.history[1]), Front(node.history[2])>>

PrivateFirst(w) ==
    Takes(w) =>
        IF procs[w].internalq # <<>>
        THEN /\ procs'[w].node = Head(procs[w].internalq)
             /\ procs'[w].internalq = Tail(procs[w].internalq)
             /\ nodeq' = nodeq
        ELSE /\ nodeq # <<>>
             /\ procs'[w].node = Head(nodeq)
             /\ nodeq' = Tail(nodeq)
             /\ procs'[w].internalq = <<>>

RoutedByLength(w) ==
    (procs[w].pc = "case" /\ procs'[w] # procs[w]) =>
        LET child == Candidate(procs[w].node, procs[w].k)
            survives == ~RLess(RMul(child.coefficient, payoff_max), epsilon)
        IN /\ (survives /\ Depth(child) <= 2) =>
                 /\ nodeq' = Append(nodeq, child)
                 /\ procs'[w].internalq = procs[w].internalq
           /\ (survives /\ Depth(child) > 2) =>
                 /\ procs'[w].internalq = Append(procs[w].internalq, child)
                 /\ nodeq' = nodeq
           /\ ~survives =>
                 /\ nodeq' = nodeq
                 /\ procs'[w].internalq = procs[w].internalq

CrashPairs == {<<"WSLS", "AllC">>, <<"TitForTat", "WSLS">>, <<"TitForTat", "AllD">>}

CrashInit ==
    /\ engine = "par"
    /\ \E pair \in CrashPairs : strategy_one = pair[1] /\ strategy_two = pair[2]
    /\ payoff_matrix \in ParMatrices
    /\ continuation_probability \in Deltas
    /\ mistake_probability \in Mus
    /\ epsilon \in ParEpsilons
    /\ epsilon_two = epsilon
    /\ cpus \in 1..MaxWorkers
    /\ pc = "call"
    /\ call = 1
    /\ q = <<>>
    /\ strategy_payoff = <<RZero, RZero>>
    /\ player_history = <<<<>>, <<>>>>
    /\ rounds = -1
    /\ max_term_size = Inf
    /\ nodeq = <<>>
    /\ resultq = <<>>
    /\ procs = [w \in Workers |-> NoProc]
    /\ started = 0
    /\ joined = 0
    /\ manager = FALSE
    /\ constructed = 0
    /\ enqueued = <<>>
    /\ expanded = <<>>
    /\ first = [done |-> FALSE]
    /\ SimIdle
    /\ ObjIdle

CrashWorker(w) == Worker(w) \/ WorkerRaises(w)

CrashNext == Coordinator \/ \E w \in Workers : CrashWorker(w)

CrashSpec ==
    /\ CrashInit /\ [][CrashNext]_vars
    /\ WF_vars(Coordinator)
    /\ \A w \in Workers : WF_vars(CrashWorker(w))

Crashed(w) == procs[w].pc = "crashed"

RECURSIVE ReturnedTotals(_)
ReturnedTotals(w) ==
    IF w = 0 THEN <<RZero, RZero>>
    ELSE PairAdd(ReturnedTotals(w - 1),
                 IF Exited(w) THEN procs[w].total ELSE <<RZero, RZero>>)

AfterCrash(w) ==
    /\ (~Crashed(w) /\ procs'[w].pc = "crashed") =>
          /\ resultq' = resultq
          /\ expanded' = expanded /\ enqueued' = enqueued
    /\ Crashed(w) =>
          /\ procs'[w] = procs[w]
          /\ Len(expanded') > Len(expanded) => expanded'[Len(expanded')].by # w

\* C32: a worker whose next_move raises ends without a put on the result
\* queue and takes no further step, so what its internal queue holds is
\* never expanded; the coordinator's joins still return, it raises nothing,
\* and it returns (1 - delta) times the sum of the totals of the workers that
\* exited normally.
C32_CrashLosesTotalSilently ==
    /\ [][\A w \in Workers : AfterCrash(w)]_vars
    /\ [](pc \in {"start", "join"} =>
            Len(resultq) = Cardinality({w \in Workers : Exited(w)}))
    /\ []((\E w \in Workers : Crashed(w)) => <>(pc = "returned"))
    /\ [][pc # "call" => pc' # "raised"]_vars
    /\ [](pc = "returned" =>
            strategy_payoff = Normalise(ReturnedTotals(MaxWorkers)))

\* Of two workers one crashed on the root and the other exited by timeout;
\* the coordinator has returned (0, 0).
C32_Witness ==
    /\ pc = "returned" /\ cpus = 2
    /\ \E w, v \in Workers : Crashed(w) /\ Exited(v)
    /\ strategy_payoff = <<RZero, RZero>>


(***************************************************************************)
(* The rounds of the parallel Monte Carlo engine                           *)
(***************************************************************************)
IsPrefix(a, b) == Len(a) <= Len(b) /\ SubSeq(b, 1, Len(a)) = a

\* Both standard errors, over every sample recorded so far, are below target.
TestPassed ==
    /\ Recorded > 0
    /\ StrictlyBelowTarget(payoffs[1]) /\ StrictlyBelowTarget(payoffs[2])

Queued == Flatten(q)

RoundStep ==
    engine = "simpar" =>
        /\ IsPrefix(payoffs[1], payoffs'[1]) /\ IsPrefix(payoffs[2], payoffs'[2])
        /\ matches' # matches => pc = "map"
        /\ (pc # "check" /\ pc' = "check") =>
              /\ pc = "map"
              /\ \A i \in 1..cpus : pool[i]
              /\ Len(q) = cpus /\ q' = <<>>
              /\ payoffs'[1] = payoffs[1] \o [j \in 1..Len(Queued) |-> Queued[j][1]]
              /\ payoffs'[2] = payoffs[2] \o [j \in 1..Len(Queued) |-> Queued[j][2]]
        /\ (pc = "check" /\ pc' = "map") =>
              /\ estimator_stdev # None /\ ~TestPassed
              /\ trial_chunks' = [i \in 1..cpus |-> TRIAL_INCREMENT \div cpus]
              /\ \A i \in 1..cpus : ~pool'[i]
        /\ (pc = "check" /\ pc' # "check") =>
              (pc' = "mean" <=> (estimator_stdev = None \/ TestPassed))
        /\ LeftLoop =>
              pc' \in {"mean", "returned"} /\ matches' = matches /\ payoffs' = payoffs

\* C33: the parallel Monte Carlo engine tests only after every chunk of the
\* round has run and one list per chunk has been taken off the queue; samples
\* are only appended and the test is over all of them; a further round, of
\* TRIAL_INCREMENT // cpu_count() trials per chunk, starts only when an
\* adaptive test failed, and none starts once the loop is left or, in
\* fixed-count mode, after the first round.
C33_DispatchCollectCheck ==
    /\ [][RoundStep]_vars
    /\ [](FixedCount("simpar") =>
            (pc # "call" => trial_chunks = [i \in 1..cpus |-> trials \div cpus])
            /\ matches <= cpus * (trials \div cpus))

\* An adaptive run failed the test after its first round, ran one increment
\* round and passed the test on the samples of both rounds.
C33_Witness ==
    /\ Adaptive("simpar") /\ pc = "mean" /\ cpus = 2
    /\ Recorded = 2 * (trials \div 2) + TRIAL_INCREMENT
    /\ TestPassed


\* C34: in the parallel Monte Carlo engine, from the end of a round's
\* collection on (at the test, while the next round's chunks run, and after
\* the loop) number_of_trials equals the number of sample pairs accumulated
\* and the number of matches collected, and right after the collection the
\* queue is empty.
C34_CounterIsSampleCount ==
    engine = "simpar" =>
        /\ pc \in {"check", "mean", "returned"} =>
              /\ number_of_trials = Recorded
              /\ number_of_trials = Len(payoffs[2])
              /\ number_of_trials = matches
              /\ q = <<>>
        /\ pc = "map" =>
              /\ number_of_trials = Recorded
              /\ number_of_trials = Len(payoffs[2])

\* The second round of an adaptive run on two processes has been collected.
C34_Witness ==
    /\ Adaptive("simpar") /\ pc = "check" /\ cpus = 2
    /\ number_of_trials = 2 * (trials \div 2) + TRIAL_INCREMENT
    /\ number_of_trials = Recorded


(***************************************************************************)
(* simulations.perform_trial, called match after match on one pair of      *)
(* players and one generator, as simulate_payoff and                       *)
(* perform_multiple_trials call it.                                        *)
(***************************************************************************)
MaxMatches == 3

MatchInit ==
    /\ engine = "match"
    /\ \E pair \in SimPairs : strategy_one = pair[1] /\ strategy_two = pair[2]
    /\ payoff_matrix = SymmetricMatrix
    /\ continuation_probability \in SimDeltas
    /\ mistake_probability \in SimMus
    /\ trials = 0
    /\ estimator_stdev = None
    /\ seed \in Seeds
    /\ random_instance = RandomState(seed)
    /\ cpus = 1
    /\ pc = "call"
    /\ q = <<>>
    /\ strategy_payoff = <<RZero, RZero>>
    /\ number_of_trials = 0
    /\ payoffs = <<<<>>, <<>>>>
    /\ trial = None
    /\ trial_chunks = <<>>
    /\ pool = <<>>
    /\ matches = 0
    /\ CalcIdle
    /\ ObjIdle

matchrest == <<simargs, objvars, q, strategy_payoff, number_of_trials, payoffs,
               trial_chunks, pool, epsilon, epsilon_two, call, rounds,
               max_term_size, nodeq, resultq, procs, started, joined, manager,
               constructed, enqueued, expanded, first>>

\* Mutant: the players keep the histories they hold.
PlayersAtStartKept(held) == held

\* player_one.reset(); player_two.reset(): the histories the two players,
\* which held the histories `held`, start the match with.
PlayersAtStart(held) ==
    <<SelfReset(StrategyObject(strategy_one, C, D, held[1])).history,
      SelfReset(StrategyObject(strategy_two, C, D, held[2])).history>>

\* perform_trial up to its while loop.
MatchBegin ==
    /\ engine = "match" /\ pc = "call"
    /\ matches < MaxMatches
    /\ trial' = [NewTrial(mistake_probability) EXCEPT
                    !.history = PlayersAtStart(player_history)]
    /\ player_history' = PlayersAtStart(player_history)
    /\ pc' = "round"
    /\ UNCHANGED <<matchrest, random_instance, matches>>

\* One iteration of perform_trial's while loop.
MatchRound ==
    /\ engine = "match" /\ pc = "round"
    /\ trial.cont
    /\ trial.rounds < MaxRounds
    /\ \E r \in {Round(trial, random_instance)} :
          /\ trial' = r.trial
          /\ random_instance' = r.rng
          /\ player_history' = r.trial.history
    /\ UNCHANGED <<matchrest, pc, matches>>

\* perform_trial returns; the players keep their histories.
MatchEnd ==
    /\ engine = "match" /\ pc = "round"
    /\ ~trial.cont
    /\ matches' = matches + 1
    /\ pc' = "call"
    /\ UNCHANGED <<matchrest, trial, random_instance, player_history>>

MatchNext == MatchBegin \/ MatchRound \/ MatchEnd

MatchSpec == MatchInit /\ [][MatchNext]_vars

InMatch == engine = "match" /\ pc = "round"

\* The move a player plays: its proposal, flipped when the draw is below mu.
PlayedMove(proposal, draw) ==
    IF RLess(draw, mistake_probability) THEN Flip(proposal) ELSE proposal

PlaysRound ==
    (InMatch /\ trial'.rounds = trial.rounds + 1) =>
        LET h == trial.history
            first_draw == random_sample(random_instance)
            second_draw == random_sample(Advance(random_instance))
            one == PlayedMove(next_move(strategy_one, h[1], h[2]), first_draw)
            two == PlayedMove(next_move(strategy_two, h[2], h[1]), second_draw)
            pay == payoff(payoff_matrix, one, two)
        IN /\ trial'.history = <<Append(h[1], one), Append(h[2], two)>>
           /\ trial'.payoff = <<trial.payoff[1] + pay[1], trial.payoff[2] + pay[2]>>

\* C35: in perform_trial both histories always have the length of the number
\* of rounds played; a round appends to each history the move that player
\* actually played, flipped when its draw fell below mu, and adds the payoff
\* of exactly that move pair; a match that ends has played at least a round.
C35_HistoriesRecordPlayedMoves ==
    /\ [](InMatch =>
            /\ Len(trial.history[1]) = trial.rounds
            /\ Len(trial.history[2]) = trial.rounds
            /\ trial.rounds > 0 =>
                  /\ Last(trial.history[1]) = trial.played[1]
                  /\ Last(trial.history[2]) = trial.played[2]
            /\ ~trial.cont => trial.rounds >= 1)
    /\ [][PlaysRound]_vars

\* A second round has been played in which a player's move was flipped.
C35_Witness ==
    /\ InMatch /\ trial.rounds >= 2
    /\ trial.played[1] # trial.proposed[1]
    /\ Last(trial.history[1]) = trial.played[1]

\* C36: every call of perform_trial starts its rounds with both players'
\* histories empty, whatever histories the same two players held after the
\* previous match, and the first moves proposed in every match are the two
\* policies' moves on empty histories.
C36_MatchStartsFromEmptyHistories ==
    /\ [][(engine = "match" /\ pc = "call" /\ pc' = "round") =>
             /\ trial'.history = <<<<>>, <<>>>>
             /\ player_history' = <<<<>>, <<>>>>]_vars
    /\ []((InMatch /\ trial.rounds = 1) => trial.proposed = FirstMoves)

\* The second match of Grim and TitForTat, played with mu = 1/4 by the two
\* players of the first match, has played its first round.
C36_Witness ==
    /\ InMatch /\ matches = 1 /\ trial.rounds = 1
    /\ trial.proposed = FirstMoves
    /\ strategy_one = "Grim" /\ mistake_probability = <<1, 4>>


(***************************************************************************)
(* repeatedgame.py: PayoffMatrix.payoff                                    *)
(***************************************************************************)
\* The moves passed to payoff: the characterset and three other strings.
Moves == {C, D, "c", "x", ""}

\* How a call of payoff ends: at one of its four return statements, at its
\* raise, or at the end of the function body, where Python returns None.
payoff_ends(player_one, player_two) ==
    IF player_one = C
    THEN (IF player_two = C \/ player_two = D THEN "return" ELSE "end of body")
    ELSE IF player_one = D
    THEN (IF player_two = C \/ player_two = D THEN "return" ELSE "end of body")
    ELSE "raise"

PayoffInit ==
    /\ engine = "payoff"
    /\ payoff_matrix \in Matrices
    /\ \E one \in Moves, two \in Moves :
          query = [player_one |-> one, player_two |-> two,
                   ends |-> "not called", value |-> <<>>]
    /\ pc = "call"
    /\ strategy_one = "AllC" /\ strategy_two = "AllC"
    /\ continuation_probability = RZero
    /\ mistake_probability = RZero
    /\ cpus = 1
    /\ q = <<>>
    /\ strategy_payoff = <<RZero, RZero>>
    /\ test_object = "None"
    /\ strat_history = <<>>
    /\ opponent_history = <<>>
    /\ action = "None"
    /\ consulted = FALSE
    /\ game = None
    /\ CalcIdle
    /\ SimIdle

\* payoff_matrix.payoff(player_one, player_two)
PayoffCall ==
    /\ engine = "payoff" /\ pc = "call"
    /\ LET ends == payoff_ends(query.player_one, query.player_two)
       IN query' = [query EXCEPT
                       !.ends = ends,
                       !.value = IF ends = "return"
                                 THEN payoff(payoff_matrix, query.player_one,
                                             query.player_two)
                                 ELSE <<>>]
    /\ pc' = "done"
    /\ UNCHANGED <<engine, strategy_one, strategy_two, payoff_matrix,
                   continuation_probability, mistake_probability, cpus, q,
                   strategy_payoff, calcvars, simvars, test_object, strat_history,
                   opponent_history, action, consulted, game>>

PayoffSpec == PayoffInit /\ [][PayoffCall]_vars

\* C37 (as claimed): payoff returns the configured pair for each of the four
\* move combinations over the characterset, and raises InvalidActionError
\* whenever either move is outside the characterset.
C37_PayoffReturnsPairOrRaises ==
    (engine = "payoff" /\ pc = "done") =>
        IF query.player_one \in Charset /\ query.player_two \in Charset
        THEN /\ query.ends = "return"
             /\ query.value =
                  payoff_matrix[IF query.player_one = C
                                THEN (IF query.player_two = C THEN "CC" ELSE "CD")
                                ELSE (IF query.player_two = C THEN "DC" ELSE "DD")]
        ELSE query.ends = "raise"


(***************************************************************************)
(* repeatedgame.py: RepeatedGame.simulate_normalised_payoff                *)
(***************************************************************************)
\* simulate_payoff's defaults: mistake_probability=0., seed=1234
DefaultMistakeProbability == RZero
DefaultSeed == 1234

\* The trials and seed arguments of simulate_normalised_payoff.
WrapTrials == {1, 2, 5}
WrapSeeds == {1, 2, 3}

\* game.simulate_normalised_payoff(payoff_matrix, delta, trials=N, seed=S),
\* before simulate_payoff's parameters are bound.
WrapInit ==
    /\ engine = "sim"
    /\ \E pair \in SimPairs : strategy_one = pair[1] /\ strategy_two = pair[2]
    /\ payoff_matrix = SymmetricMatrix
    /\ continuation_probability \in {d \in SimDeltas : RLess(d, ROne)}
    /\ \E n \in WrapTrials, s \in WrapSeeds : game = [trials |-> n, seed |-> s]
    /\ mistake_probability = DefaultMistakeProbability
    /\ trials = 0
    /\ seed = 0
    /\ estimator_stdev = None
    /\ cpus = 1
    /\ pc = "wrap"
    /\ q = <<>>
    /\ strategy_payoff = <<RZero, RZero>>
    /\ random_instance = None
    /\ number_of_trials = 0
    /\ payoffs = <<<<>>, <<>>>>
    /\ trial = None
    /\ trial_chunks = <<>>
    /\ pool = <<>>
    /\ matches = 0
    /\ test_object = "None"
    /\ strat_history = <<>>
    /\ opponent_history = <<>>
    /\ action = "None"
    /\ consulted = FALSE
    /\ query = None
    /\ CalcIdle

\* simulate_payoff(self.strategy_one, self.strategy_two, payoff_matrix,
\* continuation_probability, trials, seed): the fifth and sixth positional
\* arguments bind simulate_payoff's fifth and sixth parameters,
\* mistake_probability and trials; seed and estimator_stdev keep their defaults.
WrapCall ==
    /\ engine = "sim" /\ pc = "wrap"
    /\ mistake_probability' = RInt(game.trials)
    /\ trials' = game.seed
    /\ seed' = DefaultSeed
    /\ estimator_stdev' = None
    /\ pc' = "call"
    /\ UNCHANGED <<engine, strategy_one, strategy_two, payoff_matrix,
                   continuation_probability, cpus, q, strategy_payoff, calcvars,
                   objvars, random_instance, number_of_trials, payoffs, trial,
                   trial_chunks, pool, matches>>

WrapNext == WrapCall \/ SimSetup \/ TrialBegin \/ TrialRound \/ TrialEnd \/ SimReturn

WrapSpec == WrapInit /\ [][WrapNext]_vars

\* C38 (as claimed): simulate_normalised_payoff(payoff_matrix, delta,
\* trials=N, seed=S) runs simulate_payoff with trials = N and seed = S and
\* with no other parameter bound to them; exactly N matches are simulated.
C38_TrialsAndSeedPassedOn ==
    (engine = "sim" /\ game # None /\ pc # "wrap") =>
        /\ trials = game.trials
        /\ seed = game.seed
        /\ mistake_probability = DefaultMistakeProbability
        /\ matches <= game.trials
        /\ LeftLoop => matches = game.trials


(***************************************************************************)
(* The history pairs the exact engines enumerate                           *)
(***************************************************************************)
\* C39: in one run of a with-mistakes engine all enqueued nodes carry
\* pairwise distinct history pairs with two histories of equal length, on
\* which next_move returns a move for both players; and when naive_method
\* expands a node its two reused players hold exactly that node's histories,
\* whatever they held from the node before, so the children it enqueues are
\* those that follow from the node's own history pair.
C39_HistoryPairsDistinct ==
    /\ [](engine \in {"seq", "par"} =>
            \A i \in 1..Len(enqueued) :
                /\ Len(enqueued[i].history[1]) = Len(enqueued[i].history[2])
                /\ ~Raises(Proposed(enqueued[i]))
                /\ \A j \in 1..Len(enqueued) :
                      enqueued[i].history = enqueued[j].history => i = j)
    /\ [][(engine = "seq" /\ pc = "loop" /\ q # <<>>) =>
             /\ player_history' = Head(q).history
             /\ \A i \in (Len(enqueued) + 1)..Len(enqueued') :
                   enqueued'[i] \in Candidates(Head(q))]_vars

\* naive_method has expanded, one after the other, two nodes of the same
\* depth, so that the players held a sibling's histories before the second.
C39_Witness ==
    /\ engine = "seq" /\ pc = "loop"
    /\ \E i \in 2..Len(expanded) :
          /\ Depth(expanded[i].node) = 2
          /\ Depth(expanded[i - 1].node) = 2
          /\ player_history = expanded[i].node.history

============================================================================
